---- MODULE Spec2Model ----
(***************************************************************************)
(* Model of the bar-by-bar simulation of backtest_mirror:                  *)
(*   engine/risk.py     Trade, RiskManager (open_trade, _be_check,         *)
(*                      maybe_step_trailing, check_exit)                   *)
(*   engine/entry.py    EntryManager (tick, arm_cooldown, ready)           *)
(*   engine/utils.py    quantize, wilder_atr, rolling_median, zscore       *)
(*   engine/eventwave.py squeeze and release flags                         *)
(*   engine/regime.py   the votes and the regime                           *)
(*   engine/trigger.py  the donchian and the z-score trigger               *)
(*   engine/backtest.py BacktestEngine.run (preparation of the frame, the  *)
(*                      bar walk and the mark-to-close after it)           *)
(*   run_backtest.py    _month_add, the test-window mask of a fold, one    *)
(*                      engine per run, _filter_months, _make_folds        *)
(*                                                                         *)
(* Specifications.  Spec: the bar walk, rows drawn as they are read.       *)
(* SpecRisk, SpecOpen: RiskManager called directly.  SpecTrade: the same   *)
(* with the closure that ends a run.  SpecEntry: one bar                   *)
(* of the walk with its row kept.  SpecInput: run handed an index in any   *)
(* order.  SpecFrame: run handed a frame of OHLC bars, signals computed    *)
(* from it.  SpecAhead: the same on longer frames of fewer bar shapes.     *)
(* SpecRuns: runs one after the other.  SpecFold: the mask of a            *)
(* walk-forward fold.  SpecFolds: _make_folds.                             *)
(*                                                                         *)
(* Numbers.  Prices, ATR values and the configured multipliers are         *)
(* integers (a price unit is one model unit; the tick is 2 units, so that  *)
(* quantize really rounds).  The two quotients the code stores, Trade.R    *)
(* and Trade.overshoot_R, are kept as exact fractions <<num, den>> in      *)
(* lowest terms with den > 0; comparisons of quotients are done by         *)
(* comparing fractions.  Floating-point rounding is not modelled.          *)
(* ATR is > 0 on every bar (Wilder smoothing of true ranges that are not   *)
(* all zero), the rolling median is NaN until its window is full.          *)
(* In the bar walk consecutive bars are one minute apart; calls spaced     *)
(* irregularly in time are made in the RiskManager interface runs.         *)
(*                                                                         *)
(* Trades are objects: `heap` holds every Trade object created so far,     *)
(* the engine's `open_trade` and its ledger `trades` hold references       *)
(* (indices into heap; 0 is None).                                         *)
(***************************************************************************)
EXTENDS Integers, Sequences, FiniteSets, TLC

VARIABLES
    cfg,               \* the resolved configuration of this run
    pc,                \* "start": run called; "walk": in the bar loop;
                       \* "done": run returned; "risk": RiskManager driven
                       \* directly; "fold": _run_walkforward after a run;
                       \* "main": main of run_backtest.py
    n,                 \* len(df.loc[:ts]): bars iterated so far
    ts,                \* epoch of the current bar (of the last call in SpecRisk)
    last_close,        \* df["close"].iloc[-1] of the bars iterated so far
    heap,              \* all Trade objects created, by reference
    open_trade,        \* reference to the open trade, 0 = None
    trades,            \* the ledger: sequence of references
    cooldown,          \* engine's cooldown-after-exit counter
    entry_cooldown,    \* EntryManager._cooldown
    last_fill_signal,  \* "LONG"/"SHORT"/"None"
    call,              \* SpecRisk: the last RiskManager call and its arguments
    df,                \* the bar frame handed to run, where a run is given one
    wf                 \* run_backtest.py: the state of the driver around runs

vars == <<cfg, pc, n, ts, last_close, heap, open_trade, trades, cooldown,
          entry_cooldown, last_fill_signal, call, df, wf>>

\* ------------------------------------------------------------------ bounds
\* number of bars of the longest bar sequence walked
MaxBars == 3
\* largest number of bars between two RiskManager calls (0 = same bar)
MaxGap == 1
\* largest price level of a bar in the engine walk (levels 1..MaxPx)
MaxPx == 3
\* largest price level of an argument in the RiskManager interface runs
MaxRiskPx == 5
\* number of calls after open_trade in a RiskManager interface run
MaxCalls == 2
\* bars walked before the bar observed by SpecEntry
MaxPrefix == 3
\* instants of time told apart within one calendar month
MonthInstants == 2
\* trades in the ledger of a fold's run
MaxFoldTrades == 2
\* runs made one after the other by the driver
MaxRuns == 2
\* months in the list handed to the walk-forward driver
MaxMonths == 4
\* largest train, test and step size of the walk-forward windows
MaxWindow == 2

\* seconds between two consecutive minute bars
BarSecs == 60
\* float NaN of a rolling window without enough history
NaN == -1

\* ------------------------------------------------------------- arithmetic
Abs(x) == IF x < 0 THEN -x ELSE x

RECURSIVE GCD(_, _)
GCD(a, b) == IF b = 0 THEN a ELSE GCD(b, a % b)

\* the quotient a / b (b # 0) as a fraction in lowest terms, den > 0
Frac(a, b) ==
    LET g == GCD(Abs(a), Abs(b))
        s == IF b < 0 THEN -1 ELSE 1
    IN  <<(s * a) \div g, (s * b) \div g>>

FracGE(x, y) == x[1] * y[2] >= y[1] * x[2]
Zero == <<0, 1>>

Max(a, b) == IF b > a THEN b ELSE a

\* utils.quantize: floor to a multiple of tick, identity when tick <= 0
quantize(value, tick) ==
    IF tick <= 0 THEN value ELSE (value \div tick) * tick

\* ---------------------------------------------------------- configuration
\* `self.sym_tick or self.quant_tick`
TickOf(c) == IF c.sym_tick # 0 THEN c.sym_tick ELSE c.quant_tick

BaseCfg ==
    [ warmup_bars |-> 0, cooldown_bars |-> 0, direction |-> "both",
      sl_mult |-> 1, tp_mult |-> 0,
      be_enabled |-> TRUE, be_threshold_R |-> <<1, 1>>,
      tsl_enabled |-> TRUE, tsl_atr_mult |-> 1, step_atr_mult |-> 1,
      first_step_delay |-> 0, min_step_secs |-> 0,
      floor_from_med_mult |-> 0,
      quant_tick |-> 0, sym_tick |-> 0,
      pct_of_median |-> <<1, 1>>,
      atr_window |-> 1, median_window |-> 3,
      zscore_window |-> 2, zscore_threshold |-> 0,
      trigger_mode |-> "donchian", donchian_window |-> 1,
      lookbacks |-> <<1, 2>>, require_majority |-> 2 ]

\* ------------------------------------------------------------ RiskManager
NewTrade(side, entry_ts, entry_px, atr_entry, r_value, sl_px) ==
    [ side |-> side, entry_ts |-> entry_ts, entry_px |-> entry_px,
      atr_entry |-> atr_entry, r_value |-> r_value, sl_px |-> sl_px,
      tsl_on_ts |-> 0, last_tsl_step_ts |-> 0, state |-> "OPEN",
      exit_ts |-> 0, exit_px |-> 0, exit_reason |-> "",
      R |-> Zero, overshoot_R |-> Zero ]

risk_open_trade(c, t_s, px, side, atr_now, med_atr) ==
    LET r_val == atr_now * c.sl_mult
        sl0   == IF side = 1 THEN px - r_val ELSE px + r_val
        sl    == quantize(sl0, TickOf(c))
        t     == NewTrade(side, t_s, px, atr_now, r_val, sl)
    IN  [t EXCEPT !.tsl_on_ts = t_s, !.last_tsl_step_ts = t_s]

\* fault variant of be_moves: the stop is moved to the entry price without
\* asking whether that is strictly more favourable
be_moves_unchecked(c, t, px) ==
    /\ c.be_enabled /\ t.state = "OPEN"
    /\ FracGE(Frac((px - t.entry_px) * t.side, t.r_value), c.be_threshold_R)

\* the condition under which _be_check moves the stop
be_moves(c, t, px) ==
    /\ c.be_enabled /\ t.state = "OPEN"
    /\ FracGE(Frac((px - t.entry_px) * t.side, t.r_value), c.be_threshold_R)
    /\ LET new_sl == quantize(t.entry_px, TickOf(c))
       IN  \/ (t.side = 1 /\ new_sl > t.sl_px)
           \/ (t.side = -1 /\ new_sl < t.sl_px)

\* fault variant of _be_check: the move is not recorded as a step
risk_be_check_nostamp(c, t, t_s, px) ==
    IF be_moves(c, t, px)
    THEN [t EXCEPT !.sl_px = quantize(t.entry_px, TickOf(c))]
    ELSE t

\* lines 66-74
risk_be_check(c, t, t_s, px) ==
    IF be_moves(c, t, px)
    THEN [t EXCEPT !.sl_px = quantize(t.entry_px, TickOf(c)),
                   !.last_tsl_step_ts = t_s]
    ELSE t

\* max(target_gap, floor_gap); a NaN floor_gap never compares greater
tsl_distance_now(c, atr_now, med_atr) ==
    LET target_gap == c.tsl_atr_mult * atr_now
    IN  IF med_atr = NaN THEN target_gap
        ELSE Max(target_gap, c.floor_from_med_mult * med_atr)

advance_required(c, t, atr_now) == c.step_atr_mult * atr_now

\* fault variant of eligible_for_step: the time since the last step is not
\* tested
eligible_for_step_nomin(c, t, t_s) ==
    /\ c.tsl_enabled
    /\ ~((t_s - t.tsl_on_ts) < c.first_step_delay)

\* lines 85-89
eligible_for_step(c, t, t_s) ==
    /\ c.tsl_enabled
    /\ ~((t_s - t.tsl_on_ts) < c.first_step_delay)
    /\ ~((t_s - t.last_tsl_step_ts) < c.min_step_secs)

\* the stop a trailing step writes: the quantized candidate
trail_stop(c, new_sl) == quantize(new_sl, TickOf(c))

risk_maybe_step_trailing(c, t, t_s, px, atr_now, med_atr) ==
    IF ~eligible_for_step(c, t, t_s) THEN t
    ELSE
      LET adv_needed == advance_required(c, t, atr_now)
          dist       == tsl_distance_now(c, atr_now, med_atr)
      IN  IF t.side = 1
          THEN IF (px - t.sl_px) < adv_needed THEN t
               ELSE IF px - dist <= t.sl_px THEN t
               ELSE [t EXCEPT !.sl_px = trail_stop(c, px - dist),
                              !.last_tsl_step_ts = t_s]
          ELSE IF (t.sl_px - px) < adv_needed THEN t
               ELSE IF px + dist >= t.sl_px THEN t
               ELSE [t EXCEPT !.sl_px = trail_stop(c, px + dist),
                              !.last_tsl_step_ts = t_s]

\* fault variant of stop_hit: a stop exactly at the entry price reports SL
stop_hit_strict(t, bar_high, bar_low) ==
    IF t.side = 1
    THEN IF bar_low <= t.sl_px
         THEN [hit |-> TRUE, px |-> t.sl_px,
               overshoot |-> Frac((bar_low - t.sl_px) * t.side, t.r_value),
               reason |-> IF t.sl_px > t.entry_px THEN "TSL" ELSE "SL"]
         ELSE [hit |-> FALSE, px |-> 0, overshoot |-> Zero, reason |-> ""]
    ELSE IF bar_high >= t.sl_px
         THEN [hit |-> TRUE, px |-> t.sl_px,
               overshoot |-> Frac((t.sl_px - bar_high) * t.side, t.r_value),
               reason |-> IF t.sl_px < t.entry_px THEN "TSL" ELSE "SL"]
         ELSE [hit |-> FALSE, px |-> 0, overshoot |-> Zero, reason |-> ""]

\* fault variant of stop_hit: the exit is filled at the bar's extreme
stop_hit_at_extreme(t, bar_high, bar_low) ==
    IF t.side = 1
    THEN IF bar_low <= t.sl_px
         THEN [hit |-> TRUE, px |-> bar_low,
               overshoot |-> Frac((bar_low - t.sl_px) * t.side, t.r_value),
               reason |-> IF t.sl_px >= t.entry_px THEN "TSL" ELSE "SL"]
         ELSE [hit |-> FALSE, px |-> 0, overshoot |-> Zero, reason |-> ""]
    ELSE IF bar_high >= t.sl_px
         THEN [hit |-> TRUE, px |-> bar_high,
               overshoot |-> Frac((t.sl_px - bar_high) * t.side, t.r_value),
               reason |-> IF t.sl_px <= t.entry_px THEN "TSL" ELSE "SL"]
         ELSE [hit |-> FALSE, px |-> 0, overshoot |-> Zero, reason |-> ""]

\* the stop branch of check_exit: <<hit, exit_px, overshoot_R, exit_reason>>
stop_hit(t, bar_high, bar_low) ==
    IF t.side = 1
    THEN IF bar_low <= t.sl_px
         THEN [hit |-> TRUE, px |-> t.sl_px,
               overshoot |-> Frac((bar_low - t.sl_px) * t.side, t.r_value),
               reason |-> IF t.sl_px >= t.entry_px THEN "TSL" ELSE "SL"]
         ELSE [hit |-> FALSE, px |-> 0, overshoot |-> Zero, reason |-> ""]
    ELSE IF bar_high >= t.sl_px
         THEN [hit |-> TRUE, px |-> t.sl_px,
               overshoot |-> Frac((t.sl_px - bar_high) * t.side, t.r_value),
               reason |-> IF t.sl_px <= t.entry_px THEN "TSL" ELSE "SL"]
         ELSE [hit |-> FALSE, px |-> 0, overshoot |-> Zero, reason |-> ""]

tp_px(c, t) == t.entry_px + t.side * (c.tp_mult * t.atr_entry)

\* fault variant of tp_hit: the target must be exceeded, not just reached
tp_hit_strict(c, t, bar_high, bar_low) ==
    /\ c.tp_mult # 0 /\ c.tp_mult > 0
    /\ \/ (t.side = 1 /\ bar_high > tp_px(c, t))
       \/ (t.side = -1 /\ bar_low < tp_px(c, t))

\* the take-profit branch of check_exit, taken when no stop was hit
tp_hit(c, t, bar_high, bar_low) ==
    /\ c.tp_mult # 0 /\ c.tp_mult > 0
    /\ \/ (t.side = 1 /\ bar_high >= tp_px(c, t))
       \/ (t.side = -1 /\ bar_low <= tp_px(c, t))

realized_R(t, exit_px) == Frac((exit_px - t.entry_px) * t.side, t.r_value)

\* fault variant of close_trade: the R-value is recomputed from the exit
close_trade_recompute(t, t_s, exit_px, exit_reason, overshoot_R) ==
    [t EXCEPT !.state = "CLOSED", !.exit_ts = t_s, !.exit_px = exit_px,
              !.exit_reason = exit_reason, !.R = realized_R(t, exit_px),
              !.overshoot_R = overshoot_R,
              !.r_value = Abs(exit_px - t.entry_px)]

\* lines 134-140
close_trade(t, t_s, exit_px, exit_reason, overshoot_R) ==
    [t EXCEPT !.state = "CLOSED", !.exit_ts = t_s, !.exit_px = exit_px,
              !.exit_reason = exit_reason, !.R = realized_R(t, exit_px),
              !.overshoot_R = overshoot_R]

\* fault variant of check_exit: a stop exit closes the trade but the call
\* reports no exit
risk_check_exit_noreturn(c, t, t_s, bar_open, bar_high, bar_low, bar_close) ==
    LET s == stop_hit(t, bar_high, bar_low)
    IN  IF s.hit
        THEN [t |-> close_trade(t, t_s, s.px, s.reason, s.overshoot),
              exited |-> FALSE]
        ELSE IF tp_hit(c, t, bar_high, bar_low)
        THEN [t |-> close_trade(t, t_s, tp_px(c, t), "TP", Zero),
              exited |-> TRUE]
        ELSE [t |-> t, exited |-> FALSE]

\* fault variant of check_exit: the take-profit is tested before the stop
risk_check_exit_tp_first(c, t, t_s, bar_open, bar_high, bar_low, bar_close) ==
    LET s == stop_hit(t, bar_high, bar_low)
    IN  IF tp_hit(c, t, bar_high, bar_low)
        THEN [t |-> close_trade(t, t_s, tp_px(c, t), "TP", Zero),
              exited |-> TRUE]
        ELSE IF s.hit
        THEN [t |-> close_trade(t, t_s, s.px, s.reason, s.overshoot),
              exited |-> TRUE]
        ELSE [t |-> t, exited |-> FALSE]

\* check_exit: [t |-> the trade afterwards, exited |-> the return value]
risk_check_exit(c, t, t_s, bar_open, bar_high, bar_low, bar_close) ==
    LET s == stop_hit(t, bar_high, bar_low)
    IN  IF s.hit
        THEN [t |-> close_trade(t, t_s, s.px, s.reason, s.overshoot),
              exited |-> TRUE]
        ELSE IF tp_hit(c, t, bar_high, bar_low)
        THEN [t |-> close_trade(t, t_s, tp_px(c, t), "TP", Zero),
              exited |-> TRUE]
        ELSE [t |-> t, exited |-> FALSE]

\* ----------------------------------------------------------- EntryManager
can_long(c) == c.direction \in {"long", "both"}
can_short(c) == c.direction \in {"short", "both"}
entry_tick(cd) == IF cd > 0 THEN cd - 1 ELSE cd
entry_ready(cd) == cd = 0

\* -------------------------------------------------------------- EventWave
\* squeeze = (atr < pct_of_median * med).astype(int); NaN compares False
squeeze_flag(c, atr, med) ==
    IF med = NaN THEN 0
    ELSE IF atr * c.pct_of_median[2] < c.pct_of_median[1] * med THEN 1 ELSE 0

\* ------------------------------------------------ the signal columns
\* Columns are sequences over the bars 1..Len; an undefined value (NaN) of
\* a column of positive numbers is NaN.  Quotients are integer quotients:
\* they are exact for the windows the configurations use (ATR window 1,
\* odd median windows).

\* wilder_atr, lines 23-26: the true range; close.shift(1) is NaN on the
\* first bar and max(axis=1) skips it
true_range(high, low, close, i) ==
    IF i = 1 THEN high[1] - low[1]
    ELSE Max(high[i] - low[i],
             Max(Abs(high[i] - close[i - 1]), Abs(low[i] - close[i - 1])))

\* wilder_atr, line 27: tr.ewm(alpha=1/window, adjust=False).mean()
RECURSIVE wilder_atr(_, _, _, _, _)
wilder_atr(high, low, close, window, i) ==
    IF i = 1 THEN true_range(high, low, close, 1)
    ELSE ((window - 1) * wilder_atr(high, low, close, window, i - 1)
          + true_range(high, low, close, i)) \div window

\* the bars of the window of length w that ends at bar i
Window(w, i) == (i - w + 1)..i

\* fault variant of rolling_median: a short window gives the median of
\* the bars there are (a half rounded up)
rolling_median_partial(x, w, i) ==
    LET bars == {k \in Window(w, i) : k >= 1}
        m == Cardinality(bars)
        Below(v) == Cardinality({k \in bars : x[k] < v})
        Above(v) == Cardinality({k \in bars : x[k] > v})
        lo == CHOOSE v \in {x[k] : k \in bars} :
                Below(v) <= (m - 1) \div 2 /\ Above(v) <= m \div 2
        hi == CHOOSE v \in {x[k] : k \in bars} :
                Below(v) <= m \div 2 /\ Above(v) <= (m - 1) \div 2
    IN  (lo + hi + 1) \div 2

\* rolling_median: x.rolling(w).median(), NaN until the window is full
rolling_median(x, w, i) ==
    IF i < w THEN NaN
    ELSE LET bars == Window(w, i)
             Below(v) == Cardinality({k \in bars : x[k] < v})
             Above(v) == Cardinality({k \in bars : x[k] > v})
             lo == CHOOSE v \in {x[k] : k \in bars} :
                     Below(v) <= (w - 1) \div 2 /\ Above(v) <= w \div 2
             hi == CHOOSE v \in {x[k] : k \in bars} :
                     Below(v) <= w \div 2 /\ Above(v) <= (w - 1) \div 2
         IN  (lo + hi) \div 2

RECURSIVE SumOver(_, _)
SumOver(f, S) ==
    IF S = {} THEN 0
    ELSE LET k == CHOOSE j \in S : TRUE IN f[k] + SumOver(f, S \ {k})

\* zscore, lines 37-39, without the square root: with S the sum and Q the
\* sum of squares of the window, the deviation of x from the mean is
\* dev / w and the standard deviation (ddof=0) is sqrt(var) / w
zscore_dev(x, w, i) == w * x[i] - SumOver(x, Window(w, i))
zscore_var(x, w, i) ==
    LET sq == [k \in Window(w, i) |-> x[k] * x[k]]
        sm == SumOver(x, Window(w, i))
    IN  w * SumOver(sq, Window(w, i)) - sm * sm

\* the z-score is NaN until the window is full and where the standard
\* deviation is 0 (s.replace(0, np.nan))
zscore_defined(x, w, i) == i >= w /\ zscore_var(x, w, i) # 0

\* eventwave.py lines 24-25: (z > th) and (z < -th); NaN compares False,
\* and for th >= 0, z > th iff dev > 0 and dev^2 > th^2 * var
release_up(c, close, i) ==
    LET w == c.zscore_window
        th == c.zscore_threshold
        dv == zscore_dev(close, w, i)
    IN  IF /\ zscore_defined(close, w, i) /\ dv > 0
           /\ dv * dv > th * th * zscore_var(close, w, i)
        THEN 1 ELSE 0
release_dn(c, close, i) ==
    LET w == c.zscore_window
        th == c.zscore_threshold
        dv == zscore_dev(close, w, i)
    IN  IF /\ zscore_defined(close, w, i) /\ dv < 0
           /\ dv * dv > th * th * zscore_var(close, w, i)
        THEN 1 ELSE 0

\* trigger.py lines 15-18 and shift(1): the channel of the dc_win bars
\* before bar i, NaN until that window is full
dc_high_prev(high, w, i) ==
    IF i - 1 < w THEN NaN
    ELSE CHOOSE v \in {high[k] : k \in Window(w, i - 1)} :
            \A k \in Window(w, i - 1) : high[k] <= v
dc_low_prev(low, w, i) ==
    IF i - 1 < w THEN NaN
    ELSE CHOOSE v \in {low[k] : k \in Window(w, i - 1)} :
            \A k \in Window(w, i - 1) : low[k] >= v

\* Trigger.signal, lines 20-29
long_sig(c, d, i) ==
    IF c.trigger_mode = "donchian"
    THEN LET hi == dc_high_prev(d.high, c.donchian_window, i)
         IN  IF hi # NaN /\ d.close[i] > hi THEN 1 ELSE 0
    ELSE release_up(c, d.close, i)
short_sig(c, d, i) ==
    IF c.trigger_mode = "donchian"
    THEN LET lo == dc_low_prev(d.low, c.donchian_window, i)
         IN  IF lo # NaN /\ d.close[i] < lo THEN 1 ELSE 0
    ELSE release_dn(c, d.close, i)

\* utils.sign
sign(x) == IF x > 0 THEN 1 ELSE IF x < 0 THEN -1 ELSE 0

\* fault variant of regime_vote: the close lb bars ahead is compared
\* (close.shift(-lb))
regime_vote_ahead(close, lb, i) ==
    IF i + lb > Len(close) THEN 0 ELSE sign(close[i + lb] - close[i])

\* regime.py lines 15-18: sign of (close - close.shift(lb)).fillna(0.0)
regime_vote(close, lb, i) ==
    IF i <= lb THEN 0 ELSE sign(close[i] - close[i - lb])

bull_votes(c, close, i) ==
    Cardinality({k \in DOMAIN c.lookbacks :
                    regime_vote(close, c.lookbacks[k], i) > 0})
bear_votes(c, close, i) ==
    Cardinality({k \in DOMAIN c.lookbacks :
                    regime_vote(close, c.lookbacks[k], i) < 0})

\* fault variant of regime_at: the majority is required strictly
regime_at_strict(c, close, i) ==
    IF bear_votes(c, close, i) > c.require_majority THEN -1
    ELSE IF bull_votes(c, close, i) > c.require_majority THEN 1
    ELSE 0

\* regime.py lines 22-24: 0, then 1 where the bullish votes reach the
\* majority, then -1 where the bearish votes do (the later assignment
\* stands where both do)
regime_at(c, close, i) ==
    IF bear_votes(c, close, i) >= c.require_majority THEN -1
    ELSE IF bull_votes(c, close, i) >= c.require_majority THEN 1
    ELSE 0

\* backtest.py lines 46-57: the frame with its signal columns (votes is
\* the frame of votes local to RegimeClassifier.compute)
with_signals(c, d) ==
    LET bars == DOMAIN d.close
        atr == [i \in bars |->
                  wilder_atr(d.high, d.low, d.close, c.atr_window, i)]
        med == [i \in bars |-> rolling_median(atr, c.median_window, i)]
    IN  [given |-> TRUE, input |-> d.input, index |-> d.index,
         open |-> d.open, high |-> d.high, low |-> d.low, close |-> d.close,
         atr |-> atr, med_atr |-> med,
         squeeze |-> [i \in bars |-> squeeze_flag(c, atr[i], med[i])],
         rel_up |-> [i \in bars |-> release_up(c, d.close, i)],
         rel_dn |-> [i \in bars |-> release_dn(c, d.close, i)],
         votes |-> [i \in bars |-> [k \in DOMAIN c.lookbacks |->
                       regime_vote(d.close, c.lookbacks[k], i)]],
         regime |-> [i \in bars |-> regime_at(c, d.close, i)],
         long_trig |-> [i \in bars |-> long_sig(c, d, i)],
         short_trig |-> [i \in bars |-> short_sig(c, d, i)]]

\* ------------------------------------------------- BacktestEngine.run
\* configurations of the engine runs: warmup, cooldown, take-profit and
\* tick vary, plus a long-only one, a short-only one and one with a
\* cooldown of 2 bars; the trailing parameters are BaseCfg's
EngineConfigs ==
    { [BaseCfg EXCEPT !.warmup_bars = w, !.cooldown_bars = k,
                      !.direction = d, !.tp_mult = tp, !.sym_tick = tk] :
        w \in {0, 2}, k \in {0, 1}, d \in {"both"},
        tp \in {0, 1}, tk \in {0, 2} }
    \cup { [BaseCfg EXCEPT !.direction = "long", !.tp_mult = 1],
           [BaseCfg EXCEPT !.direction = "short", !.cooldown_bars = 1,
                           !.sym_tick = 2],
           [BaseCfg EXCEPT !.cooldown_bars = 2] }

Prices == 1..MaxPx
AtrValues == {1, 2}
MedValues == {NaN, 2}

NoCall == [op |-> "none"]
\* a run whose frame is left open: bars are drawn as the walk proceeds
NoFrame == [given |-> FALSE]
\* a run looked at on its own, outside the loops of run_backtest.py
NoDriver == [mode |-> "none"]

Init ==
    /\ cfg \in EngineConfigs
    /\ pc = "walk"
    /\ n = 0
    /\ ts = 0
    /\ last_close = 0
    /\ heap = <<>>
    /\ open_trade = 0
    /\ trades = <<>>
    /\ cooldown = 0
    /\ entry_cooldown = 0
    /\ last_fill_signal = "None"
    /\ call = NoCall
    /\ df = NoFrame
    /\ wf = NoDriver

\* fault variant of in_warmup: the gate opens one bar early
in_warmup_early(c, seen) == seen + 1 < c.warmup_bars

\* line 69: the bar is skipped while fewer than warmup_bars bars were seen
in_warmup(c, seen) == seen < c.warmup_bars

\* fault variant of flat_and_ready: the cooldown after an exit is not
\* tested
flat_and_ready_nocooldown(ot, cd, ecd) == ot = 0 /\ entry_ready(ecd)

\* fault variant of flat_and_ready: the slot is not tested
flat_and_ready_noslot(ot, cd, ecd) == cd = 0 /\ entry_ready(ecd)

\* line 92: `open_trade is None and cooldown == 0 and self.entry.ready()`
flat_and_ready(ot, cd, ecd) == ot = 0 /\ cd = 0 /\ entry_ready(ecd)

\* fault variant of long_ok: the squeeze flag is not required
long_ok_nosqueeze(c, regime, squeeze, long_trig) ==
    can_long(c) /\ regime = 1 /\ long_trig = 1

\* lines 94-98: the long and the short condition of the entry test
long_ok(c, regime, squeeze, long_trig) ==
    can_long(c) /\ regime = 1 /\ squeeze = 1 /\ long_trig = 1
short_ok(c, regime, squeeze, short_trig) ==
    can_short(c) /\ regime = -1 /\ squeeze = 1 /\ short_trig = 1

\* line 65: the loop has a next bar, its epoch, and the loop is exhausted.
\* A frame that was handed to run is walked in the order of its index;
\* otherwise bars one minute apart are drawn until the walk is stopped.
HasNextBar == IF df.given THEN n < Len(df.index) ELSE n < MaxBars
NextBarTs == IF df.given THEN df.index[n + 1] ELSE ts + BarSecs
AtEndOfData == df.given => n = Len(df.index)

\* the cursor part of one iteration: the bar becomes the current row
NextRow(close) ==
    /\ n' = n + 1
    /\ ts' = NextBarTs
    /\ last_close' = close
    /\ UNCHANGED <<cfg, pc, call, df, wf>>

\* lines 65-70: a bar before the warmup threshold; nothing else is read
BarWarmup ==
    /\ pc = "walk" /\ HasNextBar
    /\ in_warmup(cfg, n + 1)
    /\ \E close \in Prices : NextRow(close)
    /\ UNCHANGED <<heap, open_trade, trades, cooldown, entry_cooldown,
                   last_fill_signal>>

\* fault variant of entry_step: the fill is stamped with the previous bar
entry_step_prev_bar(c, hp, ot, ecd, lfs, i_epoch, row) ==
    LET sq  == squeeze_flag(c, row.atr, row.med_atr)
        lok == long_ok(c, row.regime, sq, row.long_trig)
        sok == short_ok(c, row.regime, sq, row.short_trig)
        side == IF lok THEN 1 ELSE -1
    IN  IF lok \/ sok
        THEN [heap |-> Append(hp, risk_open_trade(c, i_epoch - BarSecs,
                                                  row.open, side,
                                                  row.atr, row.med_atr)),
              open_trade |-> Len(hp) + 1,
              entry_cooldown |-> c.cooldown_bars,
              last_fill_signal |-> IF side = 1 THEN "LONG" ELSE "SHORT"]
        ELSE [heap |-> hp, open_trade |-> ot, entry_cooldown |-> ecd,
              last_fill_signal |-> lfs]

\* lines 100-108: the entry on the current row, when a direction qualifies
\* (the result is the new heap, slot, EntryManager counter and fill signal)
entry_step(c, hp, ot, ecd, lfs, i_epoch, row) ==
    LET sq  == squeeze_flag(c, row.atr, row.med_atr)
        lok == long_ok(c, row.regime, sq, row.long_trig)
        sok == short_ok(c, row.regime, sq, row.short_trig)
        side == IF lok THEN 1 ELSE -1
    IN  IF lok \/ sok
        THEN [heap |-> Append(hp, risk_open_trade(c, i_epoch, row.open, side,
                                                  row.atr, row.med_atr)),
              open_trade |-> Len(hp) + 1,
              entry_cooldown |-> c.cooldown_bars,
              last_fill_signal |-> IF side = 1 THEN "LONG" ELSE "SHORT"]
        ELSE [heap |-> hp, open_trade |-> ot, entry_cooldown |-> ecd,
              last_fill_signal |-> lfs]

\* lines 91-108 on a row whose columns are drawn here: they are read only
\* when the test of line 92 passes
EntryCheck(hp, ot, cd, ecd, i_epoch) ==
    IF flat_and_ready(ot, cd, ecd)
    THEN \E open \in Prices, atr \in AtrValues, med \in MedValues,
            regime \in {-1, 0, 1}, long_trig \in {0, 1}, short_trig \in {0, 1} :
           LET row == [open |-> open, atr |-> atr, med_atr |-> med,
                       regime |-> regime, long_trig |-> long_trig,
                       short_trig |-> short_trig]
               e == entry_step(cfg, hp, ot, ecd, last_fill_signal, i_epoch,
                               row)
           IN  /\ (hp # <<>> => med # NaN)
               /\ heap' = e.heap
               /\ open_trade' = e.open_trade
               /\ entry_cooldown' = e.entry_cooldown
               /\ last_fill_signal' = e.last_fill_signal
               /\ cooldown' = cd
               /\ UNCHANGED trades
    ELSE /\ heap' = hp
         /\ cooldown' = cd
         /\ entry_cooldown' = ecd
         /\ UNCHANGED <<open_trade, trades, last_fill_signal>>

\* lines 72-90: a bar with a trade in the slot; when the trade does not
\* exit, control reaches the entry test of line 92 with the slot taken
BarManage ==
    /\ pc = "walk" /\ HasNextBar
    /\ ~in_warmup(cfg, n + 1)
    /\ open_trade # 0
    /\ \E high \in Prices, low \in Prices, close \in Prices,
          atr \in AtrValues, med \in MedValues \ {NaN} :
        LET i_epoch == NextBarTs
            ecd == entry_tick(entry_cooldown)
            cd  == IF cooldown > 0 THEN cooldown - 1 ELSE cooldown
            t1  == risk_be_check(cfg, heap[open_trade], i_epoch, close)
            t2  == risk_maybe_step_trailing(cfg, t1, i_epoch, close, atr, med)
            x   == risk_check_exit(cfg, t2, i_epoch, close, high, low, close)
            hp  == [heap EXCEPT ![open_trade] = x.t]
        IN  /\ low <= close /\ close <= high
            /\ NextRow(close)
            /\ IF x.exited
               THEN /\ heap' = hp
                    /\ trades' = Append(trades, open_trade)
                    /\ open_trade' = 0
                    /\ cooldown' = cfg.cooldown_bars
                    /\ entry_cooldown' = ecd
                    /\ UNCHANGED last_fill_signal
               ELSE EntryCheck(hp, open_trade, cd, ecd, i_epoch)

\* lines 72-76 and 91-108: a bar with the slot empty
BarFlat ==
    /\ pc = "walk" /\ HasNextBar
    /\ ~in_warmup(cfg, n + 1)
    /\ open_trade = 0
    /\ \E close \in Prices :
        LET i_epoch == NextBarTs
            ecd == entry_tick(entry_cooldown)
            cd  == IF cooldown > 0 THEN cooldown - 1 ELSE cooldown
        IN  /\ NextRow(close)
            /\ EntryCheck(heap, open_trade, cd, ecd, i_epoch)

\* fault variant of mark_to_close: R is computed without the side
mark_to_close_noside(t, final_ts, final_close) ==
    [t EXCEPT !.state = "CLOSED", !.exit_ts = final_ts,
              !.exit_px = final_close, !.exit_reason = "CLOSE",
              !.R = Frac(final_close - t.entry_px, t.r_value)]

\* fault variant of mark_to_close: the state is left OPEN
mark_to_close_nostate(t, final_ts, final_close) ==
    [t EXCEPT !.exit_ts = final_ts,
              !.exit_px = final_close, !.exit_reason = "CLOSE",
              !.R = Frac((final_close - t.entry_px) * t.side, t.r_value)]

\* lines 112-116: the leftover trade closed at the final bar's close
mark_to_close(t, final_ts, final_close) ==
    [t EXCEPT !.state = "CLOSED", !.exit_ts = final_ts,
              !.exit_px = final_close, !.exit_reason = "CLOSE",
              !.R = Frac((final_close - t.entry_px) * t.side, t.r_value)]

\* lines 110-117 and the return: the walk is over, a leftover trade is
\* marked to the last close
EndOfData ==
    /\ pc = "walk" /\ AtEndOfData
    /\ pc' = "done"
    /\ IF open_trade # 0
       THEN /\ heap' = [heap EXCEPT ![open_trade] =
                   mark_to_close(@, ts, last_close)]
            /\ trades' = Append(trades, open_trade)
       ELSE UNCHANGED <<heap, trades>>
    /\ UNCHANGED <<cfg, n, ts, last_close, open_trade, cooldown,
                   entry_cooldown, last_fill_signal, call, df, wf>>

Next == BarWarmup \/ BarManage \/ BarFlat \/ EndOfData

Spec == Init /\ [][Next]_vars

\* ------------------------------------------- RiskManager driven directly
\* A caller holding one RiskManager opens a trade and then calls
\* _be_check, maybe_step_trailing and check_exit in any order with any
\* arguments, on the bar of the previous call or on a later bar.
RiskConfigs ==
    { [BaseCfg EXCEPT !.be_threshold_R = <<1, 2>>, !.tp_mult = 2],
      [BaseCfg EXCEPT !.min_step_secs = BarSecs, !.floor_from_med_mult = 1,
                      !.step_atr_mult = 0, !.sym_tick = 2],
      [BaseCfg EXCEPT !.be_threshold_R = <<1, 2>>, !.tp_mult = -1,
                      !.first_step_delay = BarSecs, !.quant_tick = 2],
      [BaseCfg EXCEPT !.tp_mult = 1, !.sym_tick = 2, !.quant_tick = 1],
      [BaseCfg EXCEPT !.be_enabled = FALSE, !.tp_mult = 2],
      [BaseCfg EXCEPT !.tsl_enabled = FALSE, !.sl_mult = 2] }

RiskPrices == 1..MaxRiskPx
EntryPrices == {4, 5}

InitRisk ==
    /\ cfg \in RiskConfigs
    /\ pc = "risk"
    /\ n = 0
    /\ ts = 0
    /\ last_close = 0
    /\ heap = <<>>
    /\ open_trade = 0
    /\ trades = <<>>
    /\ cooldown = 0
    /\ entry_cooldown = 0
    /\ last_fill_signal = "None"
    /\ call = NoCall
    /\ df = NoFrame
    /\ wf = NoDriver

RiskFrame == UNCHANGED <<cfg, pc, last_close, trades, cooldown,
                         entry_cooldown, last_fill_signal, df, wf>>

\* t = rm.open_trade(ts, px, side, atr_now, med_atr)
RiskOpen ==
    /\ pc = "risk" /\ heap = <<>>
    /\ \E px \in EntryPrices, side \in {1, -1}, atr \in AtrValues :
        /\ heap' = <<risk_open_trade(cfg, BarSecs, px, side, atr, 2)>>
        /\ open_trade' = 1
        /\ ts' = BarSecs
        /\ call' = [op |-> "open_trade", px |-> px, side |-> side,
                    atr |-> atr]
    /\ n' = 0
    /\ RiskFrame

\* rm._be_check(t, ts, px)
RiskBe ==
    /\ pc = "risk" /\ heap # <<>> /\ n < MaxCalls
    /\ \E dt \in 0..MaxGap, px \in RiskPrices :
        LET t_s == ts + dt * BarSecs
        IN  /\ heap' = <<risk_be_check(cfg, heap[1], t_s, px)>>
            /\ ts' = t_s
            /\ call' = [op |-> "_be_check", t |-> heap[1], px |-> px]
    /\ n' = n + 1
    /\ UNCHANGED open_trade
    /\ RiskFrame

\* rm.maybe_step_trailing(t, ts, px, atr_now, med_atr)
RiskTrail ==
    /\ pc = "risk" /\ heap # <<>> /\ n < MaxCalls
    /\ \E dt \in 0..MaxGap, px \in RiskPrices, atr \in AtrValues,
          med \in MedValues :
        LET t_s == ts + dt * BarSecs
        IN  /\ heap' = <<risk_maybe_step_trailing(cfg, heap[1], t_s, px,
                                                   atr, med)>>
            /\ ts' = t_s
            /\ call' = [op |-> "maybe_step_trailing", t |-> heap[1],
                        px |-> px, atr |-> atr, med |-> med]
    /\ n' = n + 1
    /\ UNCHANGED open_trade
    /\ RiskFrame

\* exited = rm.check_exit(t, ts, bar_open, bar_high, bar_low, bar_close)
RiskExit ==
    /\ pc = "risk" /\ heap # <<>> /\ n < MaxCalls
    /\ \E dt \in 0..MaxGap, high \in RiskPrices, low \in RiskPrices :
        LET t_s == ts + dt * BarSecs
            x   == risk_check_exit(cfg, heap[1], t_s, low, high, low, high)
        IN  /\ low <= high
            /\ heap' = <<x.t>>
            /\ ts' = t_s
            /\ call' = [op |-> "check_exit", t |-> heap[1], high |-> high,
                        low |-> low, exited |-> x.exited]
    /\ n' = n + 1
    /\ UNCHANGED open_trade
    /\ RiskFrame

NextRisk == RiskOpen \/ RiskBe \/ RiskTrail \/ RiskExit

SpecRisk == InitRisk /\ [][NextRisk]_vars

\* ------------------------- RiskManager and the closure after the walk
\* The caller of SpecRisk, who may also do what run does after its loop:
\* mark the trade it still holds OPEN to a last close, and return.
RiskMarkToClose ==
    /\ pc = "risk" /\ heap # <<>> /\ n < MaxCalls
    /\ open_trade # 0 /\ heap[1].state = "OPEN"
    /\ \E px \in RiskPrices :
        /\ heap' = <<mark_to_close(heap[1], ts, px)>>
        /\ call' = [op |-> "mark_to_close", t |-> heap[1], px |-> px]
        /\ last_close' = px
    /\ pc' = "done"
    /\ n' = n + 1
    /\ UNCHANGED <<cfg, ts, open_trade, trades, cooldown, entry_cooldown,
                   last_fill_signal, df, wf>>

NextTrade == RiskOpen \/ RiskBe \/ RiskTrail \/ RiskExit \/ RiskMarkToClose

SpecTrade == InitRisk /\ [][NextTrade]_vars

\* ------------------------------------------- run called with a frame
\* the index of the frame handed to run: up to MaxBars bars with different
\* timestamps, in any order
RECURSIVE IndexSeqs(_, _)
IndexSeqs(S, k) ==
    IF k = 0 THEN {<<>>}
    ELSE LET shorter == IndexSeqs(S, k - 1)
             Longer(q) == { Append(q, x) :
                              x \in {y \in S : \A i \in DOMAIN q : q[i] # y} }
         IN  shorter \cup UNION { Longer(q) : q \in shorter }

BarTimes == { i * BarSecs : i \in 1..MaxBars }

InputConfigs == {BaseCfg, [BaseCfg EXCEPT !.warmup_bars = 2]}

\* df.sort_index(inplace=True)
sort_index(index) ==
    LET Earlier(a, b) == a < b
    IN  SortSeq(index, Earlier)

\* engine = BacktestEngine(cfg, sym), about to call engine.run(df)
InitInput ==
    /\ cfg \in InputConfigs
    /\ pc = "start"
    /\ n = 0
    /\ ts = 0
    /\ last_close = 0
    /\ heap = <<>>
    /\ open_trade = 0
    /\ trades = <<>>
    /\ cooldown = 0
    /\ entry_cooldown = 0
    /\ last_fill_signal = "None"
    /\ call = NoCall
    /\ \E index \in IndexSeqs(BarTimes, MaxBars) :
        df = [given |-> TRUE, input |-> index, index |-> index]
    /\ wf = NoDriver

\* lines 30-62: the frame is copied, its index made a UTC DatetimeIndex
\* and sorted, the signal columns are computed (where the frame carries its
\* OHLC columns; such frames are handed in ascending, so that sorting
\* moves no row), the locals are set; no test of the frame's length or
\* order is made and nothing is raised
RunPrepare ==
    /\ pc = "start"
    /\ pc' = "walk"
    /\ df' = IF "close" \in DOMAIN df
             THEN with_signals(cfg, [df EXCEPT !.index = sort_index(df.input)])
             ELSE [df EXCEPT !.index = sort_index(df.input)]
    /\ trades' = <<>>
    /\ open_trade' = 0
    /\ cooldown' = 0
    /\ last_fill_signal' = "None"
    /\ UNCHANGED <<cfg, n, ts, last_close, heap, entry_cooldown, call, wf>>

NextInput == RunPrepare \/ BarWarmup \/ BarManage \/ BarFlat \/ EndOfData

SpecInput == InitInput /\ [][NextInput]_vars

\* ----------------------------------- RiskManager asked to open twice
\* rm.open_trade(...) called while the trade returned by an earlier call
\* is still OPEN: lines 53-64 test nothing and raise nothing, the call
\* returns one more OPEN Trade and the earlier one stays as it is
RiskOpenAgain ==
    /\ pc = "risk" /\ Len(heap) = 1 /\ heap[1].state = "OPEN"
    /\ \E dt \in 0..MaxGap, px \in EntryPrices, side \in {1, -1},
          atr \in AtrValues :
        LET t_s == ts + dt * BarSecs
        IN  /\ heap' = Append(heap, risk_open_trade(cfg, t_s, px, side, atr, 2))
            /\ ts' = t_s
            /\ call' = [op |-> "open_trade", px |-> px, side |-> side,
                        atr |-> atr, open_before |-> open_trade]
    /\ n' = n + 1
    /\ UNCHANGED open_trade
    /\ RiskFrame

NextOpen == RiskOpen \/ RiskOpenAgain

SpecOpen == InitRisk /\ [][NextOpen]_vars

\* --------------------------------- one bar of the walk, its row recorded
\* One iteration of the loop of BacktestEngine.run (lines 65-108) as a
\* function of the loop's locals s and of the whole row: the open trade is
\* managed and may exit (lines 77-89), else the entry test of line 92 runs.
bar_step(c, s, i_epoch, row) ==
    LET ecd == entry_tick(s.entry_cooldown)
        cd  == IF s.cooldown > 0 THEN s.cooldown - 1 ELSE s.cooldown
        managed == s.open_trade # 0
        t1  == risk_be_check(c, s.heap[s.open_trade], i_epoch, row.close)
        t2  == risk_maybe_step_trailing(c, t1, i_epoch, row.close, row.atr,
                                        row.med_atr)
        x   == risk_check_exit(c, t2, i_epoch, row.open, row.high, row.low,
                               row.close)
        hp  == IF managed THEN [s.heap EXCEPT ![s.open_trade] = x.t]
               ELSE s.heap
    IN  IF managed /\ x.exited
        THEN [n |-> s.n + 1, heap |-> hp, open_trade |-> 0,
              trades |-> Append(s.trades, s.open_trade),
              cooldown |-> c.cooldown_bars, entry_cooldown |-> ecd,
              last_fill_signal |-> s.last_fill_signal]
        ELSE IF flat_and_ready(s.open_trade, cd, ecd)
        THEN LET e == entry_step(c, hp, s.open_trade, ecd,
                                 s.last_fill_signal, i_epoch, row)
             IN  [n |-> s.n + 1, heap |-> e.heap,
                  open_trade |-> e.open_trade, trades |-> s.trades,
                  cooldown |-> cd, entry_cooldown |-> e.entry_cooldown,
                  last_fill_signal |-> e.last_fill_signal]
        ELSE [n |-> s.n + 1, heap |-> hp, open_trade |-> s.open_trade,
              trades |-> s.trades, cooldown |-> cd, entry_cooldown |-> ecd,
              last_fill_signal |-> s.last_fill_signal]

\* the rows of a frame: OHLC with low <= open, close <= high, plus the
\* precomputed columns read by the walk
Rows ==
    { r \in [open : Prices, high : Prices, low : Prices, close : Prices,
             atr : AtrValues, med_atr : MedValues, regime : {-1, 0, 1},
             long_trig : {0, 1}, short_trig : {0, 1}] :
        /\ r.low <= r.open /\ r.open <= r.high
        /\ r.low <= r.close /\ r.close <= r.high }

\* the bars that lead a run to the observed bar: a long signal, a short
\* signal, a quiet bar, a bar that falls to 1 and a bar that rises to 3
PrefixRows ==
    LET quiet == [open |-> 2, high |-> 2, low |-> 2, close |-> 2, atr |-> 1,
                  med_atr |-> 2, regime |-> 0, long_trig |-> 0,
                  short_trig |-> 0]
    IN  { quiet,
          [quiet EXCEPT !.regime = 1, !.long_trig = 1],
          [quiet EXCEPT !.regime = -1, !.short_trig = 1],
          [quiet EXCEPT !.low = 1, !.close = 1],
          [quiet EXCEPT !.high = 3, !.close = 3] }

\* lines 59-62: the locals of run before the first bar
FreshLocals ==
    [n |-> 0, heap |-> <<>>, open_trade |-> 0, trades |-> <<>>,
     cooldown |-> 0, entry_cooldown |-> 0, last_fill_signal |-> "None"]

\* the locals of run after at most k bars drawn from PrefixRows
RECURSIVE LocalsAfter(_, _)
LocalsAfter(c, k) ==
    IF k = 0 THEN {FreshLocals}
    ELSE LET prev == LocalsAfter(c, k - 1)
         IN  prev \cup { bar_step(c, s, (s.n + 1) * BarSecs, r) :
                             s \in prev, r \in PrefixRows }

EntryConfigs ==
    { [BaseCfg EXCEPT !.direction = d, !.cooldown_bars = k] :
        d \in {"both", "long", "short"}, k \in {0, 2} }

\* a run of some configuration, stopped between two bars
InitEntry ==
    /\ cfg \in EntryConfigs
    /\ pc = "walk"
    /\ \E s \in LocalsAfter(cfg, MaxPrefix) :
        /\ n = s.n
        /\ ts = s.n * BarSecs
        /\ heap = s.heap
        /\ open_trade = s.open_trade
        /\ trades = s.trades
        /\ cooldown = s.cooldown
        /\ entry_cooldown = s.entry_cooldown
        /\ last_fill_signal = s.last_fill_signal
    /\ last_close = 2
    /\ call = NoCall
    /\ df = NoFrame
    /\ wf = NoDriver

\* lines 65-108 on the next bar; the row and the locals the bar started
\* with are kept in `call`
BarRecorded ==
    /\ pc = "walk" /\ call = NoCall
    /\ \E row \in Rows :
        LET s == [n |-> n, heap |-> heap, open_trade |-> open_trade,
                  trades |-> trades, cooldown |-> cooldown,
                  entry_cooldown |-> entry_cooldown,
                  last_fill_signal |-> last_fill_signal]
            b == bar_step(cfg, s, ts + BarSecs, row)
        IN  /\ (heap # <<>> => row.med_atr # NaN)
            /\ n' = b.n
            /\ ts' = ts + BarSecs
            /\ last_close' = row.close
            /\ heap' = b.heap
            /\ open_trade' = b.open_trade
            /\ trades' = b.trades
            /\ cooldown' = b.cooldown
            /\ entry_cooldown' = b.entry_cooldown
            /\ last_fill_signal' = b.last_fill_signal
            /\ call' = [op |-> "bar", row |-> row,
                        open_trade |-> open_trade, cooldown |-> cooldown,
                        entry_cooldown |-> entry_cooldown,
                        heap_len |-> Len(heap)]
    /\ UNCHANGED <<cfg, pc, df, wf>>

NextEntry == BarRecorded

SpecEntry == InitEntry /\ [][NextEntry]_vars

\* --------------------------------- run called with a frame of OHLC bars
FramePrices == {1, 2, 3}

\* one bar: low < high, open and close within
FrameBars ==
    { b \in [open : FramePrices, high : FramePrices, low : FramePrices,
             close : FramePrices] :
        /\ b.low < b.high
        /\ b.low <= b.open /\ b.open <= b.high
        /\ b.low <= b.close /\ b.close <= b.high }

\* the frames of up to MaxBars one-minute bars, in ascending order
Frames ==
    { [given |-> TRUE,
       input |-> [i \in DOMAIN f |-> i * BarSecs],
       index |-> [i \in DOMAIN f |-> i * BarSecs],
       open  |-> [i \in DOMAIN f |-> f[i].open],
       high  |-> [i \in DOMAIN f |-> f[i].high],
       low   |-> [i \in DOMAIN f |-> f[i].low],
       close |-> [i \in DOMAIN f |-> f[i].close]] :
        f \in UNION { [1..k -> FrameBars] : k \in 0..MaxBars } }

\* a median over 3 bars with a one-bar channel, a z-score trigger, and a
\* vote that needs both lookbacks
FrameConfigs ==
    { [BaseCfg EXCEPT !.require_majority = 1],
      [BaseCfg EXCEPT !.median_window = 1, !.pct_of_median = <<2, 1>>,
                      !.trigger_mode = "zscore", !.require_majority = 1],
      [BaseCfg EXCEPT !.median_window = 1, !.pct_of_median = <<2, 1>>,
                      !.cooldown_bars = 1] }

InitFrame ==
    /\ cfg \in FrameConfigs
    /\ pc = "start"
    /\ n = 0
    /\ ts = 0
    /\ last_close = 0
    /\ heap = <<>>
    /\ open_trade = 0
    /\ trades = <<>>
    /\ cooldown = 0
    /\ entry_cooldown = 0
    /\ last_fill_signal = "None"
    /\ call = NoCall
    /\ df \in Frames
    /\ wf = NoDriver

\* line 65: the row of bar i
row_at(d, i) ==
    [open |-> d.open[i], high |-> d.high[i], low |-> d.low[i],
     close |-> d.close[i], atr |-> d.atr[i], med_atr |-> d.med_atr[i],
     regime |-> d.regime[i], long_trig |-> d.long_trig[i],
     short_trig |-> d.short_trig[i]]

\* lines 65-108 on the next bar of the frame
FrameBar ==
    /\ pc = "walk" /\ "close" \in DOMAIN df /\ n < Len(df.index)
    /\ LET i == n + 1
           s == [n |-> n, heap |-> heap, open_trade |-> open_trade,
                 trades |-> trades, cooldown |-> cooldown,
                 entry_cooldown |-> entry_cooldown,
                 last_fill_signal |-> last_fill_signal]
           b == IF in_warmup(cfg, i) THEN [s EXCEPT !.n = i]
                ELSE bar_step(cfg, s, df.index[i], row_at(df, i))
       IN  /\ n' = b.n
           /\ ts' = df.index[i]
           /\ last_close' = df.close[i]
           /\ heap' = b.heap
           /\ open_trade' = b.open_trade
           /\ trades' = b.trades
           /\ cooldown' = b.cooldown
           /\ entry_cooldown' = b.entry_cooldown
           /\ last_fill_signal' = b.last_fill_signal
    /\ UNCHANGED <<cfg, pc, call, df, wf>>

NextFrame == RunPrepare \/ FrameBar \/ EndOfData

SpecFrame == InitFrame /\ [][NextFrame]_vars

\* --------------------------------- run on frames with bars still to come
\* Frames one bar longer than those of SpecFrame, so that a trade entered
\* on bar 2 (the first bar with a regime) is managed on bar 3 with a bar
\* still ahead; their bars open where they close.
AheadBars == { b \in FrameBars : b.open = b.close }

AheadFrames ==
    { [given |-> TRUE,
       input |-> [i \in DOMAIN f |-> i * BarSecs],
       index |-> [i \in DOMAIN f |-> i * BarSecs],
       open  |-> [i \in DOMAIN f |-> f[i].open],
       high  |-> [i \in DOMAIN f |-> f[i].high],
       low   |-> [i \in DOMAIN f |-> f[i].low],
       close |-> [i \in DOMAIN f |-> f[i].close]] :
        f \in UNION { [1..k -> AheadBars] : k \in 0..(MaxBars + 1) } }

\* a z-score trigger, a one-bar channel with a target and a cooldown, and
\* a median over 3 bars
AheadConfigs ==
    { [BaseCfg EXCEPT !.median_window = 1, !.pct_of_median = <<2, 1>>,
                      !.trigger_mode = "zscore", !.require_majority = 1],
      [BaseCfg EXCEPT !.median_window = 1, !.pct_of_median = <<2, 1>>,
                      !.require_majority = 1, !.tp_mult = 1,
                      !.cooldown_bars = 1],
      [BaseCfg EXCEPT !.require_majority = 1] }

InitAhead ==
    /\ cfg \in AheadConfigs
    /\ pc = "start"
    /\ n = 0
    /\ ts = 0
    /\ last_close = 0
    /\ heap = <<>>
    /\ open_trade = 0
    /\ trades = <<>>
    /\ cooldown = 0
    /\ entry_cooldown = 0
    /\ last_fill_signal = "None"
    /\ call = NoCall
    /\ df \in AheadFrames
    /\ wf = NoDriver

\* lines 59-108: the locals of run after the first k bars of frame d (with
\* its signal columns)
RECURSIVE WalkOf(_, _, _)
WalkOf(c, d, k) ==
    IF k = 0 THEN FreshLocals
    ELSE LET s == WalkOf(c, d, k - 1)
         IN  IF in_warmup(c, k) THEN [s EXCEPT !.n = k]
             ELSE bar_step(c, s, d.index[k], row_at(d, k))

SpecAhead == InitAhead /\ [][NextFrame]_vars

\* ----------------------------------------- one run after the other
\* run_backtest.py makes a new engine for every symbol (line 65) and for
\* every symbol of every fold (line 170) and calls its run.  Here the
\* driver runs the same frame again with the same configuration.

\* the ledger as values: what the trades frame returned by run holds
LedgerRows == [k \in DOMAIN trades |-> heap[trades[k]]]

\* fault variant of new_entry_manager: the engine of the run before is
\* used again, its EntryManager keeps its counter
entry_manager_reused(c) == entry_cooldown

\* EntryManager.__init__, called by BacktestEngine.__init__ (line 21):
\* the counter of the new object
new_entry_manager(c) == 0

\* run works on df.copy() (line 31): the caller's frame has no signal
\* columns and keeps the order it had
callers_frame(d) ==
    [given |-> TRUE, input |-> d.input, index |-> d.input, open |-> d.open,
     high |-> d.high, low |-> d.low, close |-> d.close]

RunConfigs ==
    { [BaseCfg EXCEPT !.median_window = 1, !.pct_of_median = <<2, 1>>,
                      !.require_majority = 1, !.cooldown_bars = 2] }

InitRuns ==
    /\ cfg \in RunConfigs
    /\ pc = "start"
    /\ n = 0
    /\ ts = 0
    /\ last_close = 0
    /\ heap = <<>>
    /\ open_trade = 0
    /\ trades = <<>>
    /\ cooldown = 0
    /\ entry_cooldown = 0
    /\ last_fill_signal = "None"
    /\ call = NoCall
    /\ df \in Frames
    /\ wf = [mode |-> "single", run |-> 1]

\* a run has returned; the driver constructs the next engine and calls
\* its run; what the run before ended with is remembered in wf.before
NewRun ==
    /\ pc = "done" /\ wf.mode = "single" /\ wf.run < MaxRuns
    /\ pc' = "start"
    /\ entry_cooldown' = new_entry_manager(cfg)
    /\ heap' = <<>>
    /\ n' = 0
    /\ ts' = 0
    /\ last_close' = 0
    /\ df' = callers_frame(df)
    /\ wf' = [mode |-> "single", run |-> wf.run + 1,
              before |-> [ledger |-> LedgerRows, open_trade |-> open_trade,
                          cooldown |-> cooldown,
                          entry_cooldown |-> entry_cooldown]]
    /\ UNCHANGED <<cfg, open_trade, trades, cooldown, last_fill_signal, call>>

NextRuns == RunPrepare \/ FrameBar \/ EndOfData \/ NewRun

SpecRuns == InitRuns /\ [][NextRuns]_vars

\* ------------------------------------ run_backtest.py: walk-forward folds
\* A month "YYYY-MM" is the pair <<YYYY, MM>>; an instant is a number, each
\* calendar month holding MonthInstants of them.

\* fault variant of month_add: the month is not made zero-based
month_add_onebased(m, k) ==
    LET total == m[1] * 12 + m[2] + k
    IN  <<total \div 12, (total % 12) + 1>>

\* _month_add: months counted from year 0, k added, split again by divmod
month_add(m, k) ==
    LET total == m[1] * 12 + (m[2] - 1) + k
    IN  <<total \div 12, (total % 12) + 1>>

\* pd.to_datetime(m + "-01", utc=True): the first instant of month m
month_start(m) == (m[1] * 12 + (m[2] - 1)) * MonthInstants

\* lines 172-180: the trades whose entry_ts lies in [ts0, ts1), re-indexed
fold_filter(test, entries) ==
    LET ts0 == month_start(test[1])
        ts1 == month_start(month_add(test[Len(test)], 1))
        Keep(e_ts) == e_ts >= ts0 /\ e_ts < ts1
    IN  SelectSeq(entries, Keep)

\* the months the test windows are taken from, around a year boundary
FoldMonths == {<<2023, 11>>, <<2023, 12>>, <<2024, 1>>}

\* test = months[i + train_m : i + train_m + test_m] of an ascending list
TestWindows ==
    {<<m>> : m \in FoldMonths}
    \cup { w \in FoldMonths \X FoldMonths :
               month_start(w[2]) > month_start(w[1]) }

\* the instants of the months loaded for a fold and of the months around
FoldInstants == month_start(<<2023, 10>>) .. (month_start(<<2024, 3>>) - 1)

\* the strictly ascending sequences over S of length at most k
RECURSIVE AscSeqs(_, _)
AscSeqs(S, k) ==
    IF k = 0 THEN {<<>>}
    ELSE LET shorter == AscSeqs(S, k - 1)
             Longer(q) == { Append(q, x) :
                              x \in {y \in S : q = <<>> \/ y > q[Len(q)]} }
         IN  shorter \cup UNION { Longer(q) : q \in shorter }

\* one symbol of one fold, after engine.run has returned its ledger
InitFold ==
    /\ cfg = BaseCfg
    /\ pc = "fold"
    /\ n = 0
    /\ ts = 0
    /\ last_close = 0
    /\ heap = <<>>
    /\ open_trade = 0
    /\ trades = <<>>
    /\ cooldown = 0
    /\ entry_cooldown = 0
    /\ last_fill_signal = "None"
    /\ call = NoCall
    /\ df = NoFrame
    /\ \E test \in TestWindows, entries \in AscSeqs(FoldInstants, MaxFoldTrades) :
        wf = [mode |-> "walkforward", test |-> test, entries |-> entries,
              filtered |-> FALSE, out |-> <<>>]

\* lines 172-180 of _run_walkforward
FoldFilter ==
    /\ pc = "fold" /\ ~wf.filtered
    /\ wf' = [wf EXCEPT !.filtered = TRUE,
                        !.out = fold_filter(wf.test, wf.entries)]
    /\ UNCHANGED <<cfg, pc, n, ts, last_close, heap, open_trade, trades,
                   cooldown, entry_cooldown, last_fill_signal, call, df>>

NextFold == FoldFilter

SpecFold == InitFold /\ [][NextFold]_vars

\* ------------------------------------------- the folds of a walk-forward
\* main in walk-forward mode: the month list of the configuration (or the
\* one inferred from the input files) is sorted and cut to [start, end] by
\* _filter_months, and _make_folds slides the windows over it.
\* to_key of _filter_months: months compare as (year, month)
month_key(m) == m[1] * 12 + (m[2] - 1)

\* _filter_months, lines 124-134; None is <<>>
filter_months(months, start, end) ==
    LET Earlier(a, b) == month_key(a) < month_key(b)
        Keep(m) == /\ (start # <<>> => month_key(m) >= month_key(start))
                   /\ (end # <<>> => month_key(m) <= month_key(end))
    IN  SelectSeq(SortSeq(months, Earlier), Keep)

\* fault variant of fold_stop: the last start index is left out
fold_stop_short(months, train_m, test_m) ==
    Len(months) - train_m - test_m

\* line 147: the stop of range(0, len(months) - train_m - test_m + 1, step_m)
fold_stop(months, train_m, test_m) ==
    Len(months) - train_m - test_m + 1

\* lines 147-150: the loop from start index i on
RECURSIVE folds_from(_, _, _, _, _)
folds_from(months, train_m, test_m, step_m, i) ==
    IF i < fold_stop(months, train_m, test_m)
    THEN <<[train |-> SubSeq(months, i + 1, i + train_m),
            test  |-> SubSeq(months, i + train_m + 1, i + train_m + test_m)]>>
         \o folds_from(months, train_m, test_m, step_m, i + step_m)
    ELSE <<>>

\* _make_folds, lines 144-151
make_folds(months, train_m, test_m, step_m) ==
    folds_from(months, train_m, test_m, step_m, 0)

\* the months a list is made of, around a year boundary
MonthPool == {<<2023, 11>>, <<2023, 12>>, <<2024, 1>>, <<2024, 2>>}

\* the lists over S of length at most k, in any order, repeats included
RECURSIVE ListsOver(_, _)
ListsOver(S, k) ==
    IF k = 0 THEN {<<>>}
    ELSE LET shorter == ListsOver(S, k - 1)
         IN  shorter \cup { Append(q, x) : q \in shorter, x \in S }

\* main has read the configuration and is about to dispatch on the mode
InitFolds ==
    /\ cfg = BaseCfg
    /\ pc = "main"
    /\ n = 0
    /\ ts = 0
    /\ last_close = 0
    /\ heap = <<>>
    /\ open_trade = 0
    /\ trades = <<>>
    /\ cooldown = 0
    /\ entry_cooldown = 0
    /\ last_fill_signal = "None"
    /\ call = NoCall
    /\ df = NoFrame
    /\ \E months \in ListsOver(MonthPool, MaxMonths),
          start \in {<<>>, <<2023, 12>>}, end \in {<<>>, <<2024, 1>>},
          train_m \in 1..MaxWindow, test_m \in 1..MaxWindow,
          step_m \in 1..MaxWindow :
        wf = [mode |-> "walkforward", months |-> months, start |-> start,
              end |-> end, train_m |-> train_m, test_m |-> test_m,
              step_m |-> step_m, made |-> FALSE, months_use |-> <<>>,
              folds |-> <<>>]

\* main lines 41-45 and _run_walkforward line 155
MakeFolds ==
    /\ pc = "main" /\ ~wf.made
    /\ LET months_use == filter_months(wf.months, wf.start, wf.end)
       IN  wf' = [wf EXCEPT !.made = TRUE, !.months_use = months_use,
                            !.folds = make_folds(months_use, wf.train_m,
                                                 wf.test_m, wf.step_m)]
    /\ UNCHANGED <<cfg, pc, n, ts, last_close, heap, open_trade, trades,
                   cooldown, entry_cooldown, last_fill_signal, call, df>>

NextFolds == MakeFolds

SpecFolds == InitFolds /\ [][NextFolds]_vars

\* ================================================================ claims
Ledger == {heap[trades[k]] : k \in DOMAIN trades}
StopReasons == {"SL", "TSL"}

\* C1: after every processed bar at most one Trade object is OPEN, and an
\* OPEN trade is the one in the engine's slot: a trade is never opened
\* over an occupied slot and never leaves the slot while still OPEN.
C1_AtMostOneOpen ==
    /\ Cardinality({i \in DOMAIN heap : heap[i].state = "OPEN"}) <= 1
    /\ \A i \in DOMAIN heap : heap[i].state = "OPEN" => open_trade = i

\* a second trade is open after the first one was closed into the ledger
C1_Witness ==
    /\ pc = "walk" /\ Len(heap) >= 2 /\ open_trade = 2
    /\ heap[2].state = "OPEN" /\ heap[1].state = "CLOSED"

\* C2: no breakeven check and no trailing step applied to an OPEN trade
\* moves the stop of a long down or the stop of a short up, quantization
\* of the new stop included.
C2_StopMonotone ==
    [][ (pc = "risk" /\ heap # <<>> /\ heap[1].state = "OPEN"
         /\ call'.op \in {"_be_check", "maybe_step_trailing"})
        => /\ heap[1].side = 1 => heap'[1].sl_px >= heap[1].sl_px
           /\ heap[1].side = -1 => heap'[1].sl_px <= heap[1].sl_px ]_vars

\* a stop that had already been moved is moved again, onto a tick of 2
C2_Witness ==
    /\ pc = "risk" /\ call.op \in {"_be_check", "maybe_step_trailing"}
    /\ call.t.state = "OPEN" /\ TickOf(cfg) = 2
    /\ heap[1].sl_px # call.t.sl_px
    /\ call.t.last_tsl_step_ts > call.t.entry_ts

\* the stop of trade t is reached by a bar with these extremes
StopReached(t, high, low) ==
    \/ (t.side = 1 /\ low <= t.sl_px)
    \/ (t.side = -1 /\ high >= t.sl_px)

\* the stop of trade t is at or beyond its entry price
AtOrBeyondEntry(t) ==
    \/ (t.side = 1 /\ t.sl_px >= t.entry_px)
    \/ (t.side = -1 /\ t.sl_px <= t.entry_px)

\* C3: check_exit on an OPEN trade whose stop the bar reaches closes it on
\* that bar at the stop price, with reason TSL when the stop is at or
\* beyond the entry price and SL otherwise; a stop equal to the entry price
\* gives TSL and realized R = 0.
C3_StopExit ==
    (pc = "risk" /\ call.op = "check_exit" /\ call.t.state = "OPEN"
     /\ StopReached(call.t, call.high, call.low))
    => /\ call.exited
       /\ heap[1].state = "CLOSED"
       /\ heap[1].exit_ts = ts
       /\ heap[1].exit_px = call.t.sl_px
       /\ heap[1].exit_reason =
              IF AtOrBeyondEntry(call.t) THEN "TSL" ELSE "SL"
       /\ call.t.sl_px = call.t.entry_px
              => heap[1].exit_reason = "TSL" /\ heap[1].R = Zero

\* a stop moved to exactly the entry price is hit
C3_Witness ==
    /\ pc = "risk" /\ call.op = "check_exit" /\ call.t.state = "OPEN"
    /\ StopReached(call.t, call.high, call.low)
    /\ call.t.sl_px = call.t.entry_px
    /\ call.t.last_tsl_step_ts > call.t.entry_ts
    /\ heap[1].exit_reason = "TSL"

\* C4: every ledger trade, whatever its exit reason, has
\* R * r_value = (exit_px - entry_px) * side with r_value = ATR-at-entry
\* times the stop multiplier.
C4_RealizedR ==
    \A t \in Ledger :
        /\ t.r_value = t.atr_entry * cfg.sl_mult
        /\ t.R[1] * t.r_value = (t.exit_px - t.entry_px) * t.side * t.R[2]

\* a ledger holding a stop or target exit and a forced close of a short
\* with a nonzero result
C4_Witness ==
    /\ pc = "done"
    /\ \E t \in Ledger : t.exit_reason \in {"SL", "TSL", "TP"}
    /\ \E t \in Ledger : t.exit_reason = "CLOSE" /\ t.side = -1
                          /\ t.R[1] # 0

\* C5 as stated: a long closed by a stop hit has R < 0, or R = 0 with the
\* stop at the entry price.
C5_StopExitNotPositive ==
    \A t \in Ledger :
        (t.side = 1 /\ t.exit_reason \in StopReasons)
        => \/ t.R[1] < 0
           \/ (t.R[1] = 0 /\ t.sl_px = t.entry_px)

\* C5 amended: a long closed by a stop hit exits at its stop and its R has
\* the sign of (stop - entry): negative below the entry price, 0 at it,
\* positive when trailing has moved the stop above it.
C5_StopExitSign ==
    \A t \in Ledger :
        (t.side = 1 /\ t.exit_reason \in StopReasons)
        => /\ t.exit_px = t.sl_px
           /\ (t.sl_px < t.entry_px) <=> (t.R[1] < 0)
           /\ (t.sl_px = t.entry_px) <=> (t.R[1] = 0)
           /\ (t.sl_px > t.entry_px) <=> (t.R[1] > 0)

\* a long stopped out above its entry price after its stop was moved
C5_Witness ==
    \E t \in Ledger :
        /\ t.side = 1 /\ t.exit_reason = "TSL"
        /\ t.sl_px > t.entry_px /\ t.R[1] > 0

\* C6: a stop exit of either side records overshoot_R <= 0, equal to
\* (low - stop) / r_value for a long and (stop - high) / r_value for a short.
C6_OvershootNotPositive ==
    (pc = "risk" /\ call.op = "check_exit" /\ call.t.state = "OPEN"
     /\ heap[1].exit_reason \in StopReasons)
    => /\ heap[1].overshoot_R[1] <= 0
       /\ heap[1].overshoot_R =
              IF call.t.side = 1
              THEN Frac(call.low - call.t.sl_px, call.t.r_value)
              ELSE Frac(call.t.sl_px - call.high, call.t.r_value)

\* C7: when the run has returned, every trade ever opened is CLOSED and in
\* the ledger exactly once, and a trade left open by the walk was closed at
\* the final bar's close and timestamp with reason CLOSE.
C7_ForcedClose ==
    pc = "done" =>
        /\ \A i \in DOMAIN heap :
               /\ heap[i].state = "CLOSED"
               /\ Cardinality({k \in DOMAIN trades : trades[k] = i}) = 1
        /\ open_trade # 0 =>
               /\ heap[open_trade].exit_px = last_close
               /\ heap[open_trade].exit_ts = ts
               /\ heap[open_trade].exit_reason = "CLOSE"
               /\ trades[Len(trades)] = open_trade

\* a run that ended with a trade still open, after an earlier exit
C7_Witness ==
    /\ pc = "done" /\ open_trade = 2 /\ Len(trades) = 2
    /\ heap[1].exit_reason # "CLOSE" /\ heap[2].exit_reason = "CLOSE"

\* C8: a bar whose ordinal in the ascending sequence (the first bar is 1)
\* is below warmup_bars opens no trade, manages no trade and ticks no
\* cooldown counter.
C8_NoEntryInWarmup ==
    [][ (pc = "walk" /\ n' = n + 1 /\ n' < cfg.warmup_bars)
        => UNCHANGED <<heap, open_trade, trades, cooldown, entry_cooldown,
                       last_fill_signal>> ]_vars

\* a warmup bar was skipped; later a trade is opened on the threshold bar
C8_Witness ==
    /\ cfg.warmup_bars = 2 /\ n = 2 /\ open_trade # 0
    /\ heap[open_trade].entry_ts = ts

\* the take-profit target of trade t
Target(t) == t.entry_px + t.side * (cfg.tp_mult * t.atr_entry)

TargetReached(t, high, low) ==
    \/ (t.side = 1 /\ high >= Target(t))
    \/ (t.side = -1 /\ low <= Target(t))

\* C9: on a bar that reaches both the stop and the take-profit target the
\* trade exits at the stop with reason SL or TSL, never TP.
C9_StopBeforeTarget ==
    (pc = "risk" /\ call.op = "check_exit" /\ call.t.state = "OPEN"
     /\ cfg.tp_mult > 0
     /\ StopReached(call.t, call.high, call.low)
     /\ TargetReached(call.t, call.high, call.low))
    => /\ heap[1].exit_reason \in StopReasons
       /\ heap[1].exit_px = call.t.sl_px

\* a bar spanning both the stop and the target of an open trade
C9_Witness ==
    /\ pc = "risk" /\ call.op = "check_exit" /\ call.t.state = "OPEN"
    /\ cfg.tp_mult > 0
    /\ StopReached(call.t, call.high, call.low)
    /\ TargetReached(call.t, call.high, call.low)
    /\ Target(call.t) # call.t.sl_px

\* C10: check_exit on an OPEN trade gives reason TP exactly when the stop
\* is not reached, tp_mult > 0 and the bar reaches the target; the exit
\* price is then the target and the overshoot 0.
C10_TakeProfit ==
    (pc = "risk" /\ call.op = "check_exit" /\ call.t.state = "OPEN")
    => /\ (heap[1].exit_reason = "TP")
              <=> /\ ~StopReached(call.t, call.high, call.low)
                  /\ cfg.tp_mult > 0
                  /\ TargetReached(call.t, call.high, call.low)
       /\ heap[1].exit_reason = "TP"
              => /\ heap[1].state = "CLOSED"
                 /\ heap[1].exit_px = Target(call.t)
                 /\ heap[1].overshoot_R = Zero
                 /\ call.exited

\* a short reaches its target exactly, the stop untouched
C10_Witness ==
    /\ pc = "risk" /\ call.op = "check_exit" /\ call.t.state = "OPEN"
    /\ call.t.side = -1 /\ call.low = Target(call.t)
    /\ heap[1].exit_reason = "TP"

\* ---------------------------------------------------------------- C11
EntryGate ==
    /\ call.open_trade = 0
    /\ (IF call.cooldown > 0 THEN call.cooldown - 1 ELSE 0) = 0
    /\ (IF call.entry_cooldown > 0 THEN call.entry_cooldown - 1 ELSE 0) = 0
RowSqueeze == squeeze_flag(cfg, call.row.atr, call.row.med_atr) = 1
RowLong ==
    /\ cfg.direction \in {"both", "long"}
    /\ call.row.regime = 1 /\ call.row.long_trig = 1
RowShort ==
    /\ cfg.direction \in {"both", "short"}
    /\ call.row.regime = -1 /\ call.row.short_trig = 1
Opened == Len(heap) = call.heap_len + 1

\* C11: a trade is opened on a post-warmup bar exactly when the bar started
\* with no trade open, the cooldown-after-exit counter and the EntryManager
\* counter are 0 after this bar's decrement, the squeeze flag is 1 and the
\* long or else the short condition holds; the trade then has side +1 when
\* the long condition holds and -1 otherwise, entry price the bar's open
\* and entry timestamp the bar's timestamp, and it is the open trade.
C11_EntryIff ==
    call.op = "bar" =>
        /\ Opened <=> (EntryGate /\ RowSqueeze /\ (RowLong \/ RowShort))
        /\ Opened =>
            /\ open_trade = Len(heap)
            /\ heap[open_trade].state = "OPEN"
            /\ heap[open_trade].side = (IF RowLong THEN 1 ELSE -1)
            /\ heap[open_trade].entry_px = call.row.open
            /\ heap[open_trade].entry_ts = ts
        /\ ~Opened => Len(heap) = call.heap_len

\* a short entry in a two-sided configuration with a cooldown, on a bar
\* that also shows a long trigger, after an earlier trade has exited
C11_Witness ==
    /\ call.op = "bar" /\ Opened
    /\ cfg.direction = "both" /\ cfg.cooldown_bars = 2
    /\ heap[open_trade].side = -1
    /\ call.row.long_trig = 1
    /\ call.heap_len = 1

\* ---------------------------------------------------------------- C12
TargetOrStop == {"SL", "TSL", "TP"}
Chronological ==
    /\ \A k \in DOMAIN trades : trades[k] = k
    /\ \A i \in DOMAIN heap :
        /\ heap[i].state = "CLOSED" => heap[i].exit_ts >= heap[i].entry_ts
        /\ i < Len(heap) =>
            /\ heap[i].state = "CLOSED"
            /\ heap[i + 1].entry_ts > heap[i].exit_ts

\* C12 as stated: no bar carries both the entry timestamp of a trade and
\* the exit timestamp of a trade, stop and target exits are strictly after
\* their entry, and the ledger is chronological without overlap.
C12_NoBarHostsBoth ==
    /\ \A i, j \in DOMAIN heap :
        heap[j].state = "CLOSED" => heap[j].exit_ts # heap[i].entry_ts
    /\ Chronological

\* C12 (amended): no bar carries both an entry and a stop or target exit:
\* every stop or target exit is strictly after its entry, the entry after
\* an exit is on a strictly later bar, the ledger holds the trades in the
\* order they were opened and consecutive trades do not overlap; only the
\* closure at the end of the data may fall on the bar of its own entry.
C12_EntryExitBars ==
    /\ \A i, j \in DOMAIN heap :
        (heap[j].state = "CLOSED" /\ heap[j].exit_reason \in TargetOrStop)
            => heap[j].exit_ts # heap[i].entry_ts
    /\ \A i \in DOMAIN heap :
        (heap[i].state = "CLOSED" /\ heap[i].exit_reason \in TargetOrStop)
            => heap[i].exit_ts > heap[i].entry_ts
    /\ \A i, j \in DOMAIN heap :
        (heap[j].state = "CLOSED" /\ heap[j].exit_ts = heap[i].entry_ts)
            => (i = j /\ pc = "done" /\ heap[j].exit_reason = "CLOSE")
    /\ Chronological

\* a stop exit on the bar after the entry, a new entry on the bar after
\* that exit, closed at the end of the data on the bar it was opened on
C12_Witness ==
    /\ pc = "done" /\ Len(trades) = 2
    /\ heap[1].exit_reason \in TargetOrStop
    /\ heap[1].exit_ts = heap[1].entry_ts + BarSecs
    /\ heap[2].entry_ts = heap[1].exit_ts + BarSecs
    /\ heap[2].exit_reason = "CLOSE"
    /\ heap[2].exit_ts = heap[2].entry_ts

\* ---------------------------------------------------------------- C13
MonthOf(e_ts) == e_ts \div MonthInstants
MonthNo(m) == m[1] * 12 + m[2] - 1
InTestWindow(e_ts) ==
    /\ MonthNo(wf.test[1]) <= MonthOf(e_ts)
    /\ MonthOf(e_ts) <= MonthNo(wf.test[Len(wf.test)])

\* C13: the ledger written for a fold holds exactly the trades of the
\* fold's run entered from the first instant of the first test month up to,
\* not including, the first instant of the month after the last test
\* month, in their order; no other trade of the run appears in it.
C13_FoldWindow ==
    (pc = "fold" /\ wf.filtered) =>
        /\ wf.out = SelectSeq(wf.entries, InTestWindow)
        /\ \A k \in DOMAIN wf.out : InTestWindow(wf.out[k])

\* a window ending in December: a trade entered in December is kept, one
\* entered at the first instant of January is dropped
C13_Witness ==
    /\ pc = "fold" /\ wf.filtered
    /\ wf.test[Len(wf.test)] = <<2023, 12>>
    /\ Len(wf.entries) = 2 /\ Len(wf.out) = 1
    /\ wf.out[1] = month_start(<<2024, 1>>) - 1
    /\ wf.entries[2] = month_start(<<2024, 1>>)

\* ---------------------------------------------------------------- C14
Closes(i) == heap[i].state = "OPEN" /\ heap'[i].state = "CLOSED"

\* C14: in every step of a run a CLOSED trade keeps all its fields, a trade
\* that goes from OPEN to CLOSED is appended to the ledger in that very
\* step, the ledger changes only by appending a trade closed in that step,
\* new trades start OPEN, and when the run returns every trade is CLOSED
\* and is in the ledger exactly once.
C14_ClosedOnce ==
    [][ /\ Len(heap') >= Len(heap)
        /\ \A i \in DOMAIN heap :
            /\ heap[i].state = "CLOSED" => heap'[i] = heap[i]
            /\ Closes(i) => trades' = Append(trades, i)
        /\ \A i \in DOMAIN heap' \ DOMAIN heap : heap'[i].state = "OPEN"
        /\ \/ trades' = trades
           \/ \E i \in DOMAIN heap : Closes(i) /\ trades' = Append(trades, i)
        /\ pc' = "done" =>
            /\ \A i \in DOMAIN heap' : heap'[i].state = "CLOSED"
            /\ Len(trades') = Len(heap')
            /\ \A i \in DOMAIN heap' : \E k \in DOMAIN trades' : trades'[k] = i
      ]_vars

\* the walk goes on with a second trade open while the ledger holds the
\* first, closed by its stop
C14_Witness ==
    /\ pc = "walk" /\ Len(trades) = 1 /\ Len(heap) = 2
    /\ heap[1].state = "CLOSED" /\ heap[1].exit_reason \in StopReasons
    /\ open_trade = 2 /\ heap[2].state = "OPEN"

\* ---------------------------------------------------------------- C15
OpenCount == Cardinality({i \in DOMAIN heap : heap[i].state = "OPEN"})

\* C15: once open_trade has been called while a trade was OPEN, the run is
\* in a fatal error state and the call has not produced a second OPEN
\* trade.
C15_OpenWhileOpenFatal ==
    (call.op = "open_trade" /\ "open_before" \in DOMAIN call)
        => (pc = "fatal" /\ OpenCount = 1)

\* ---------------------------------------------------------------- C16
Ascending(index) ==
    \A i \in DOMAIN index : i < Len(index) => index[i] < index[i + 1]
BadInput == df.given /\ (df.input = <<>> \/ ~Ascending(df.input))

\* C16: a run given an empty frame, or a frame whose timestamps are not
\* ascending, does not return a ledger.
C16_FailFast == BadInput => pc # "done"

\* ---------------------------------------------------------------- C17
Prepared == pc \in {"walk", "done"} /\ "squeeze" \in DOMAIN df
NoEntryAt(i) == \A j \in DOMAIN heap : heap[j].entry_ts # df.index[i]
MedianShort(i) == i < cfg.median_window
ZUndefined(i) ==
    \/ i < cfg.zscore_window
    \/ \A k \in Window(cfg.zscore_window, i) : df.close[k] = df.close[i]
ChannelShort(i) == i - 1 < cfg.donchian_window

Bullish(i) ==
    Cardinality({k \in DOMAIN cfg.lookbacks :
        i > cfg.lookbacks[k] /\ df.close[i] > df.close[i - cfg.lookbacks[k]]})
Bearish(i) ==
    Cardinality({k \in DOMAIN cfg.lookbacks :
        i > cfg.lookbacks[k] /\ df.close[i] < df.close[i - cfg.lookbacks[k]]})

\* C18 as stated: on every bar the regime is +1 if the bullish votes reach
\* the threshold, otherwise -1 if the bearish votes reach it, otherwise 0,
\* a lookback without history casting no vote.
C18_RegimeBullFirst ==
    Prepared =>
        \A i \in DOMAIN df.close :
            df.regime[i] = (IF Bullish(i) >= cfg.require_majority THEN 1
                            ELSE IF Bearish(i) >= cfg.require_majority THEN -1
                            ELSE 0)

\* C18 (amended): on every bar the regime is -1 if the bearish votes reach
\* the threshold, otherwise +1 if the bullish votes reach it, otherwise 0,
\* a lookback without history casting no vote.
C18_RegimeBearFirst ==
    Prepared =>
        \A i \in DOMAIN df.close :
            df.regime[i] = (IF Bearish(i) >= cfg.require_majority THEN -1
                            ELSE IF Bullish(i) >= cfg.require_majority THEN 1
                            ELSE 0)

\* a bar on which one lookback votes up and the other down with a
\* threshold of 1, in a frame that also has a bar of regime +1 and whose
\* first bar, without history, has regime 0
C18_Witness ==
    /\ Prepared /\ Len(df.close) = 3
    /\ cfg.require_majority = 1
    /\ Bullish(3) = 1 /\ Bearish(3) = 1 /\ df.regime[3] = -1
    /\ df.regime[2] = 1 /\ df.regime[1] = 0

\* ---------------------------------------------------------------- C19
\* C19: every run starts its walk with no open trade, an empty ledger and
\* both cooldown counters at 0, whatever the run before ended with; and a
\* run on the frame and configuration of the run before returns the same
\* ledger, hence the same count of entries, over the same number of bars.
C19_RunsIndependent ==
    /\ (pc = "walk" /\ n = 0) =>
        /\ open_trade = 0 /\ trades = <<>>
        /\ cooldown = 0 /\ entry_cooldown = 0
        /\ \A i \in DOMAIN heap : heap[i].state # "OPEN"
    /\ (pc = "done" /\ wf.mode = "single" /\ wf.run > 1) =>
        LedgerRows = wf.before.ledger

\* a second run has returned a ledger of one stopped-out trade, after a
\* first run that ended with both counters above 0
C19_Witness ==
    /\ pc = "done" /\ wf.mode = "single" /\ wf.run = 2
    /\ wf.before.cooldown > 0 /\ wf.before.entry_cooldown > 0
    /\ Len(LedgerRows) = 1
    /\ LedgerRows[1].exit_reason \in StopReasons

\* ---------------------------------------------------------------- C20
BarNo(t_s) == t_s \div BarSecs
Floor0(x) == IF x > 0 THEN x - 1 ELSE 0

\* C20: with N = cooldown_bars, a trade is entered neither on the bar on
\* which the trade before it exited nor before N bars after that bar, and
\* not before N bars after the bar on which the trade before it was
\* entered; on every bar after the warmup each counter goes down by one,
\* stopping at 0, unless the bar re-arms it (the cooldown after an exit on
\* the bar of an exit, the EntryManager counter on the bar of an entry),
\* also while a trade is open; bars of the warmup and the end of the run
\* leave the counters as they are; the counters are never below 0.
C20_Cooldown ==
    [][ /\ \A i \in DOMAIN heap' :
            i < Len(heap') =>
                /\ BarNo(heap'[i + 1].entry_ts) > BarNo(heap'[i].exit_ts)
                /\ BarNo(heap'[i + 1].entry_ts)
                       >= BarNo(heap'[i].exit_ts) + cfg.cooldown_bars
                /\ BarNo(heap'[i + 1].entry_ts)
                       >= BarNo(heap'[i].entry_ts) + cfg.cooldown_bars
        /\ cooldown' >= 0 /\ entry_cooldown' >= 0
        /\ (n' = n + 1 /\ n' >= cfg.warmup_bars) =>
            /\ cooldown' = (IF Len(trades') > Len(trades)
                            THEN cfg.cooldown_bars ELSE Floor0(cooldown))
            /\ entry_cooldown' = (IF Len(heap') > Len(heap)
                                  THEN cfg.cooldown_bars
                                  ELSE Floor0(entry_cooldown))
        /\ (n' = n \/ n' < cfg.warmup_bars) =>
            (cooldown' = cooldown /\ entry_cooldown' = entry_cooldown)
      ]_vars

\* with a cooldown of 2 bars: entry on bar 1, stop exit on bar 2, and bar 3
\* has passed without an entry, the cooldown counter standing at 1
C20_Witness ==
    /\ pc = "walk" /\ cfg.cooldown_bars = 2 /\ n = 3
    /\ Len(heap) = 1 /\ Len(trades) = 1 /\ open_trade = 0
    /\ BarNo(heap[1].entry_ts) = 1 /\ BarNo(heap[1].exit_ts) = 2
    /\ cooldown = 1 /\ entry_cooldown = 0

\* ---------------------------------------------------------------- C21
\* the last call was a trailing step and it changed the stop
TrailMoved ==
    call.op = "maybe_step_trailing" /\ heap[1].sl_px # call.t.sl_px
\* the last call was a breakeven check and it changed the stop
BeMoved == call.op = "_be_check" /\ heap[1].sl_px # call.t.sl_px

\* C21: a trailing step called with time ts changes the stop only if
\* trailing is enabled, ts - entry_ts >= first_step_delay and
\* ts - last_tsl_step_ts >= min_step_secs, where last_tsl_step_ts is the
\* time of the most recent call that moved the stop (a trailing step or a
\* breakeven move) or a later trailing step, and the entry time before any
\* of these: it is written only by these calls, with the time of the call,
\* and by every one of them that moves the stop.  So a trailing step that
\* moves the stop right after one that did comes min_step_secs or more
\* later.
C21_TrailingEligibility ==
    [][ /\ TrailMoved' =>
            /\ cfg.tsl_enabled
            /\ ts' - call'.t.entry_ts >= cfg.first_step_delay
            /\ ts' - call'.t.last_tsl_step_ts >= cfg.min_step_secs
        /\ (TrailMoved' \/ BeMoved') => heap'[1].last_tsl_step_ts = ts'
        /\ (heap # <<>> /\ heap'[1].last_tsl_step_ts # heap[1].last_tsl_step_ts)
             => /\ call'.op \in {"maybe_step_trailing", "_be_check"}
                /\ heap'[1].last_tsl_step_ts = ts'
        /\ heap = <<>> => heap'[1].last_tsl_step_ts = heap'[1].entry_ts
        /\ (TrailMoved /\ TrailMoved') => ts' - ts >= cfg.min_step_secs
      ]_vars

\* with min_step_secs of one bar: the stop was moved one bar after the
\* entry, and a trailing step moved it again one bar later
C21_Witness ==
    /\ pc = "risk" /\ cfg.min_step_secs = BarSecs /\ n = 2
    /\ TrailMoved
    /\ call.t.last_tsl_step_ts = call.t.entry_ts + BarSecs
    /\ call.t.sl_px # risk_open_trade(cfg, call.t.entry_ts, call.t.entry_px,
                                      call.t.side, call.t.atr_entry, 2).sl_px
    /\ ts = call.t.last_tsl_step_ts + BarSecs

\* ---------------------------------------------------------------- C22
\* stop a is strictly more favourable than stop b for trade t
Better(t, a, b) == (t.side = 1 /\ a > b) \/ (t.side = -1 /\ a < b)
\* the candidate stop of a trailing step called with close px
Candidate(t, px, atr, med) ==
    IF t.side = 1 THEN px - tsl_distance_now(cfg, atr, med)
    ELSE px + tsl_distance_now(cfg, atr, med)
\* the close has advanced by step_atr_mult x ATR from the stop
Advanced(t, px, atr) == t.side * (px - t.sl_px) >= cfg.step_atr_mult * atr

\* C22: maybe_step_trailing changes the last-step timestamp only when it
\* strictly improves the stop, and sets it to the time of the call when it
\* does; when the close has not advanced by step_atr_mult x ATR from the
\* stop, or the tick-quantized candidate is not strictly more favourable
\* than the current stop, the stop and the last-step timestamp are as
\* before the call.
C22_StepIffImproves ==
    call.op = "maybe_step_trailing" =>
        LET t0 == call.t
            t1 == heap[1]
            new_sl == quantize(Candidate(t0, call.px, call.atr, call.med),
                               TickOf(cfg))
        IN  /\ t1.last_tsl_step_ts # t0.last_tsl_step_ts
                => Better(t0, t1.sl_px, t0.sl_px)
            /\ Better(t0, t1.sl_px, t0.sl_px) => t1.last_tsl_step_ts = ts
            /\ (~Advanced(t0, call.px, call.atr)
                    \/ ~Better(t0, new_sl, t0.sl_px))
                => /\ t1.sl_px = t0.sl_px
                   /\ t1.last_tsl_step_ts = t0.last_tsl_step_ts

\* ---------------------------------------------------------------- C23
\* the breakeven check called on trade t with close px moves the stop
BeFires(t, px) ==
    /\ cfg.be_enabled /\ t.state = "OPEN"
    /\ FracGE(Frac((px - t.entry_px) * t.side, t.r_value), cfg.be_threshold_R)
    /\ Better(t, quantize(t.entry_px, TickOf(cfg)), t.sl_px)

\* C23: on a bar of the walk on which the breakeven check moves the stop of
\* the open trade, the trade leaves the bar's trailing step, and so enters
\* the bar's exit check, with its stop at the quantized entry price.
C23_BreakevenSuppressesTrail ==
    [][ ( /\ pc = "walk" /\ open_trade # 0
          /\ n' = n + 1 /\ n' >= cfg.warmup_bars
          /\ BeFires(heap[open_trade], last_close') )
        => heap'[open_trade].sl_px
               = quantize(heap[open_trade].entry_px, TickOf(cfg))
      ]_vars

\* ---------------------------------------------------------------- C24
\* C24: a breakeven check called with time ts and close px on a trade
\* changes it exactly when breakeven is enabled, the trade is OPEN,
\* (px - entry) x side / R-value >= the threshold and the tick-quantized
\* entry price is strictly more favourable than the stop; the stop is then
\* the quantized entry price and the last-step timestamp is ts, every other
\* field as before; in every other case all fields are as before.
C24_BreakevenEffect ==
    call.op = "_be_check" =>
        IF BeFires(call.t, call.px)
        THEN /\ heap[1].sl_px = quantize(call.t.entry_px, TickOf(cfg))
             /\ heap[1].last_tsl_step_ts = ts
             /\ heap[1] = [call.t EXCEPT !.sl_px = heap[1].sl_px,
                                         !.last_tsl_step_ts = ts]
             /\ heap[1].sl_px # call.t.sl_px
        ELSE heap[1] = call.t

\* a breakeven check moved a short's stop to an entry price that the tick
\* rounds, on a bar after the last step
C24_Witness ==
    /\ call.op = "_be_check" /\ BeFires(call.t, call.px)
    /\ call.t.side = -1
    /\ quantize(call.t.entry_px, TickOf(cfg)) # call.t.entry_px
    /\ ts > call.t.last_tsl_step_ts
    /\ heap[1].sl_px < call.t.sl_px

\* ---------------------------------------------------------------- C25
\* the fields of a trade that open_trade fixes
EntryFields(t) ==
    <<t.side, t.entry_ts, t.entry_px, t.atr_entry, t.r_value, t.tsl_on_ts>>

\* C25: the breakeven check, the trailing step, the exit check and the
\* closure at the end of the data leave side, entry timestamp, entry
\* price, ATR-at-entry, R-value and trailing-arm timestamp of the trade as
\* open_trade set them (R-value = ATR-at-entry x sl_mult, the arm time the
\* entry time); and an exit check on an OPEN trade whose bar reaches
\* neither the stop nor the target returns False and leaves every field of
\* the trade as it was, the state OPEN.
C25_EntryFieldsFixed ==
    /\ call.op \in {"_be_check", "maybe_step_trailing", "check_exit",
                    "mark_to_close"}
         => EntryFields(heap[1]) = EntryFields(call.t)
    /\ heap # <<>> =>
         /\ heap[1].r_value = heap[1].atr_entry * cfg.sl_mult
         /\ heap[1].tsl_on_ts = heap[1].entry_ts
    /\ ( /\ call.op = "check_exit" /\ call.t.state = "OPEN"
         /\ ~StopReached(call.t, call.high, call.low)
         /\ ~(cfg.tp_mult > 0 /\ TargetReached(call.t, call.high, call.low)) )
         => /\ heap[1] = call.t
            /\ heap[1].state = "OPEN"
            /\ ~call.exited

\* an exit check found neither the stop nor the target of a trade whose
\* stop an earlier call had moved
C25_Witness ==
    /\ call.op = "check_exit" /\ call.t.state = "OPEN" /\ cfg.tp_mult > 0
    /\ ~StopReached(call.t, call.high, call.low)
    /\ ~TargetReached(call.t, call.high, call.low)
    /\ call.t.last_tsl_step_ts > call.t.entry_ts
    /\ heap[1].state = "OPEN" /\ ts > call.t.last_tsl_step_ts

\* ---------------------------------------------------------------- C26
\* C26: a breakeven check, a trailing step or an exit check called on a
\* trade that is CLOSED leaves every field of the trade as it was.
C26_ClosedTerminal ==
    ( /\ call.op \in {"_be_check", "maybe_step_trailing", "check_exit"}
      /\ call.t.state = "CLOSED" )
    => heap[1] = call.t

\* ---------------------------------------------------------------- C27
\* C27: for ATR > 0 and sl_mult > 0, whatever the entry price and the tick,
\* open_trade returns an OPEN trade whose quantized initial stop is
\* strictly on the losing side of the entry price (below it for a long,
\* above it for a short), whose R-value is ATR x sl_mult, and whose
\* trailing-arm and last-step timestamps are the entry timestamp.
C27_InitialStop ==
    (call.op = "open_trade" /\ call.atr > 0 /\ cfg.sl_mult > 0) =>
        LET t == heap[1]
        IN  /\ t.state = "OPEN"
            /\ t.side = call.side /\ t.entry_px = call.px /\ t.entry_ts = ts
            /\ t.side = 1 => t.sl_px < t.entry_px
            /\ t.side = -1 => t.sl_px > t.entry_px
            /\ t.r_value = call.atr * cfg.sl_mult
            /\ t.tsl_on_ts = t.entry_ts
            /\ t.last_tsl_step_ts = t.entry_ts

\* ---------------------------------------------------------------- C28
\* the first k bars of the frame handed to run, as a frame of its own
FirstBars(d, k) ==
    [given |-> TRUE, input |-> SubSeq(d.input, 1, k),
     index |-> SubSeq(d.input, 1, k),
     open |-> SubSeq(d.open, 1, k), high |-> SubSeq(d.high, 1, k),
     low |-> SubSeq(d.low, 1, k), close |-> SubSeq(d.close, 1, k)]
\* the locals of run in the current state
Locals ==
    [n |-> n, heap |-> heap, open_trade |-> open_trade, trades |-> trades,
     cooldown |-> cooldown, entry_cooldown |-> entry_cooldown,
     last_fill_signal |-> last_fill_signal]

\* C28: after the first k bars of its frame a run is in the state that the
\* run on those k bars alone is in after its last bar: the same trades
\* with the same fields (entries, stops, exits by stop or target), the
\* same ledger, the same open trade; so the runs on two frames that agree
\* on their first k bars agree on everything decided up to bar k, and the
\* bars after k influence nothing at or before k.
C28_NoLookAhead ==
    (pc = "walk" /\ "close" \in DOMAIN df) =>
        Locals = WalkOf(cfg, with_signals(cfg, FirstBars(df, n)), n)

\* three bars walked of a frame that has a fourth: a trade was entered on
\* bar 2 and left by its stop on bar 3
C28_Witness ==
    /\ pc = "walk" /\ n = 3 /\ Len(df.index) > n
    /\ Len(heap) = 1 /\ trades = <<1>>
    /\ heap[1].entry_ts = 2 * BarSecs /\ heap[1].exit_ts = 3 * BarSecs
    /\ heap[1].exit_reason \in {"SL", "TSL"}
    /\ df.close[4] # df.close[3]

\* ---------------------------------------------------------------- C29
\* the start indices the folds are to be made at (0-based)
FoldStarts ==
    { i \in 0..Len(wf.months_use) :
        /\ i % wf.step_m = 0
        /\ i + wf.train_m + wf.test_m <= Len(wf.months_use) }
\* there is one fold for each start index, in the order of the indices, its
\* train list the train_m months from that index on and its test list the
\* test_m months after them
FoldsAreWindows ==
    /\ Len(wf.folds) = Cardinality(FoldStarts)
    /\ \A j \in DOMAIN wf.folds :
        LET i == (j - 1) * wf.step_m
            f == wf.folds[j]
        IN  /\ i \in FoldStarts
            /\ Len(f.train) = wf.train_m /\ Len(f.test) = wf.test_m
            /\ \A k \in 1..wf.train_m : f.train[k] = wf.months_use[i + k]
            /\ \A k \in 1..wf.test_m :
                f.test[k] = wf.months_use[i + wf.train_m + k]
\* within every fold no month is both a train and a test month, and every
\* test month is later than every train month
TestAfterTrain ==
    \A j \in DOMAIN wf.folds :
        \A a \in DOMAIN wf.folds[j].train, b \in DOMAIN wf.folds[j].test :
            month_key(wf.folds[j].test[b]) > month_key(wf.folds[j].train[a])
\* no month occurs twice in the list handed to _make_folds
DistinctMonths ==
    \A a, b \in DOMAIN wf.months_use :
        a # b => wf.months_use[a] # wf.months_use[b]

\* C29 as stated: for train, test and step sizes >= 1 the folds are the
\* windows at the start indices 0, step, 2*step, ... that fit into the
\* month list, and in every fold every test month is later than every
\* train month, whatever the month list.
C29_Folds ==
    (pc = "main" /\ wf.made) => (FoldsAreWindows /\ TestAfterTrain)

\* C29 amended: the folds are the windows at the start indices that fit,
\* whatever the month list; in every fold every test month is later than
\* every train month when no month occurs twice in the list.
C29_FoldsOfDistinctMonths ==
    (pc = "main" /\ wf.made) =>
        /\ FoldsAreWindows
        /\ DistinctMonths => TestAfterTrain

\* four distinct months given out of order, windows of 1 and 1 month and
\* a step of 2: two folds, the second across the turn of the year
C29_Witness ==
    /\ pc = "main" /\ wf.made /\ DistinctMonths
    /\ wf.months # wf.months_use /\ Len(wf.months_use) = 4
    /\ wf.train_m = 1 /\ wf.test_m = 1 /\ wf.step_m = 2
    /\ Len(wf.folds) = 2
    /\ wf.folds[2].train = <<(<<2024, 1>>)>>
    /\ wf.folds[2].test = <<(<<2024, 2>>)>>
====
